---- MODULE Spec2Model ----
(***************************************************************************)
(* Early-boot memory management of the riscos kernel: the physical memory  *)
(* map (MemoryMap), the physical bump allocator (PhysicalBumpAllocator)    *)
(* and the Sv39 page-table engine (allocate_vpn, allocate_level_2_vpn,     *)
(* translate_virtual_address).                                             *)
(*                                                                         *)
(* Addresses of the memory map and of the allocator are byte addresses     *)
(* (usize); the model draws them from small sets far below 2^31, so no     *)
(* arithmetic of the modelled code wraps.                                  *)
(***************************************************************************)
EXTENDS Integers, Sequences, FiniteSets, TLC

VARIABLES
    \* ---- MemoryMap --------------------------------------------------------
    regions,                  \* MemoryMap.regions[0 .. current_size-1]
    aligning,                 \* TRUE: kernel/src/memory/memory_map.rs (aligns the
                              \* reserved range outward); FALSE:
                              \* kernel_library/src/memory/memory_map.rs (exact)
    halted,                   \* "no" | "panic" (index out of bounds) | "hang"
    last_op,                  \* name of the last operation that acted
    add_overlap,              \* history: some add_region stored a range that
                              \* intersected an already stored region
    add_unaligned,            \* history: some add_region stored a region that is
                              \* not page-aligned or is shorter than a page
    carve_unaligned,          \* history: some carve_out_region was given a range
                              \* whose start or size is not a page multiple
    orig,                     \* history: the single region R in SpecCarve
    reserved,                 \* history: the reserved range X in SpecCarve
    \* ---- PhysicalBumpAllocator ---------------------------------------------
    memory_regions,           \* the allocator's copy of the regions (all slots)
    region_count,
    current_region_index,
    next_allocation_address,
    returned,                 \* history: results of allocate_page since the last reset
    resets,                   \* history: number of reset calls so far
    \* ---- page tables --------------------------------------------------------
    memory,                   \* physical memory read as page tables, by frame
    mmu_call,                 \* history: the last mapping call, its arguments,
                              \* its result and the memory before it
    \* ---- device tree blob -------------------------------------------------
    dtb,                      \* the blob in memory: header fields and the bytes
                              \* of its blocks
    walk,                     \* history: what the walkers read and which
                              \* callbacks they invoked, in order
    \* ---- boot stage --------------------------------------------------------
    boot                      \* boot_main: the step it is at and what it did

mapVars   == <<regions, aligning, halted, add_overlap, add_unaligned, carve_unaligned,
               orig, reserved>>
allocVars == <<memory_regions, region_count, current_region_index,
               next_allocation_address, returned, resets>>
mmuVars   == <<memory, mmu_call>>
dtbVars   == <<dtb, walk>>
vars      == <<mapVars, allocVars, mmuVars, dtbVars, boot, last_op>>

-----------------------------------------------------------------------------
(* Bounds of the model *)

\* number of slots of MemoryMap.regions / PhysicalBumpAllocator.memory_regions
\* explored by the model (the arrays of the source have 128 slots)
RegionCapacity == 3

\* pages 0 .. MaxPage hold the addresses handed to add_region/carve_out_region
MaxPage == 3

\* number of allocate_page calls explored after a reset
MaxCalls == 5

\* number of reset calls explored on one allocator
MaxResets == 2

\* number of mapping calls explored on one root page table
MaxMmuCalls == 3

\* entries of a memory reservation block, without the terminator
MaxEntries == 2

\* items of a structure block, without the closing END token
MaxItems == 5

\* pages of the largest free region handed to the boot allocator
MaxFreePages == 6

\* the largest hart id of the machine; the hart ids are 0 .. MaxHart
MaxHart == 2

\* cells of the data of a reg property
MaxCells == 4

\* the largest #address-cells and #size-cells value of a node
MaxCellCount == 3

\* (address, size) pairs of the reg property of a memory node
MaxPairs == 4

\* number of bulk mapping calls explored on one root page table
MaxRangeCalls == 2

(* Program constants *)
PAGE_SIZE == 4096

\* map_physical_memory: const GIGABYTES_TO_MAP: usize = 128
GIGABYTES_TO_MAP == 128

\* the tokens of a structure block
FDT_BEGIN_NODE == 1
FDT_END_NODE == 2
FDT_PROP == 3
FDT_NOP == 4
FDT_END == 9

\* Option<usize>: None is the empty sequence, Some(x) the sequence of x alone
None == <<>>

Some(x) == <<x>>

-----------------------------------------------------------------------------
(* MemoryRegion *)

MemoryRegion(start, size) == [start |-> start, size |-> size]

\* MemoryRegion::end: inclusive end, 0 for an empty region
RegionEndExclusive(region) ==
    IF region.size = 0 THEN 0 ELSE region.start + region.size
RegionEnd(region) ==
    IF region.size = 0 THEN 0 ELSE region.start + region.size - 1

\* x & PAGE_MASK
AlignDown(x) == x - (x % PAGE_SIZE)

\* (x + PAGE_SIZE - 1) & PAGE_MASK
AlignUpNot(x) == x
AlignUp(x) == AlignDown(x + PAGE_SIZE - 1)

\* self.regions[i].size = new_size
SetSizeKeep(regs, i, new_size) == regs
SetSize(regs, i, new_size) == [regs EXCEPT ![i].size = new_size]

\* shift the regions after slot i one slot to the left; current_size -= 1
RemoveBySwap(s, i) == [j \in 1 .. Len(s) - 1 |-> IF j = i THEN s[Len(s)] ELSE s[j]]
RemoveAt(s, i) == [j \in 1 .. Len(s) - 1 |-> IF j < i THEN s[j] ELSE s[j + 1]]

current_size == Len(regions)

-----------------------------------------------------------------------------
(* MemoryMap::carve_out_region, exact variant (kernel_library).             *)
(* The loop index i is 1-based here; the result records whether the loop    *)
(* terminated (an intersecting region that matches none of the four cases   *)
(* would leave i unchanged for ever).                                       *)

RECURSIVE CarveLoopExact(_, _, _, _)
CarveLoopExact(regs, i, reserved_start, reserved_size) ==
    IF ~(i <= Len(regs)) THEN [regions |-> regs, terminated |-> TRUE]
    ELSE
    LET region     == regs[i]
        region_end == RegionEnd(region)
        reserved_end == reserved_start + reserved_size
    IN  IF region_end >= reserved_start /\ region.start < reserved_end
        THEN
            IF reserved_start <= region.start /\ reserved_end > region_end
            THEN CarveLoopExact(RemoveAt(regs, i), i, reserved_start, reserved_size)
            ELSE IF reserved_start <= region.start /\ reserved_end <= region_end
            THEN LET new_start == reserved_end
                     new_size  == region.size - (new_start - region.start)
                 IN  CarveLoopExact([regs EXCEPT ![i] = MemoryRegion(new_start, new_size)],
                                    i + 1, reserved_start, reserved_size)
            ELSE IF reserved_start > region.start /\ reserved_end > region_end
            THEN LET new_size == reserved_start - region.start
                 IN  CarveLoopExact(SetSize(regs, i, new_size),
                                    i + 1, reserved_start, reserved_size)
            ELSE IF reserved_start > region.start /\ reserved_end <= region_end
            THEN LET end_part_start == reserved_end
                     end_part_size  == (region_end + 1) - end_part_start
                     end_region     == MemoryRegion(end_part_start, end_part_size)
                     shrunk == SetSize(regs, i, reserved_start - region.start)
                     stored == IF Len(regs) < RegionCapacity
                               THEN Append(shrunk, end_region)
                               ELSE shrunk
                 IN  CarveLoopExact(stored, i + 1, reserved_start, reserved_size)
            ELSE [regions |-> regs, terminated |-> FALSE]
        ELSE CarveLoopExact(regs, i + 1, reserved_start, reserved_size)

(* MemoryMap::carve_out_region, aligning variant (kernel).                  *)

RECURSIVE CarveLoopAligning(_, _, _, _)
CarveLoopAligning(regs, i, aligned_reserved_start, aligned_reserved_end) ==
    IF ~(i <= Len(regs)) THEN [regions |-> regs, terminated |-> TRUE]
    ELSE
    LET region     == regs[i]
        region_end == RegionEnd(region)
    IN  IF region_end >= aligned_reserved_start /\ region.start < aligned_reserved_end
        THEN
            IF aligned_reserved_start <= region.start
               /\ aligned_reserved_end >= region_end + 1
            THEN CarveLoopAligning(RemoveAt(regs, i), i,
                                   aligned_reserved_start, aligned_reserved_end)
            ELSE IF aligned_reserved_start <= region.start
                    /\ aligned_reserved_end < region_end + 1
            THEN LET new_start == aligned_reserved_end
                     new_size  == (region_end + 1) - new_start
                 IN  CarveLoopAligning([regs EXCEPT ![i] = MemoryRegion(new_start, new_size)],
                                       i + 1, aligned_reserved_start, aligned_reserved_end)
            ELSE IF aligned_reserved_start > region.start
                    /\ aligned_reserved_end >= region_end + 1
            THEN LET new_size == aligned_reserved_start - region.start
                 IN  CarveLoopAligning(SetSize(regs, i, new_size),
                                       i + 1, aligned_reserved_start, aligned_reserved_end)
            ELSE IF aligned_reserved_start > region.start
                    /\ aligned_reserved_end < region_end + 1
            THEN LET end_part_start == aligned_reserved_end
                     end_part_size  == (region_end + 1) - aligned_reserved_end
                     end_region     == MemoryRegion(end_part_start, end_part_size)
                     shrunk == SetSize(regs, i, aligned_reserved_start - region.start)
                     stored == IF Len(regs) < RegionCapacity
                               THEN Append(shrunk, end_region)
                               ELSE shrunk
                 IN  CarveLoopAligning(stored, i + 1,
                                       aligned_reserved_start, aligned_reserved_end)
            ELSE [regions |-> regs, terminated |-> FALSE]
        ELSE CarveLoopAligning(regs, i + 1, aligned_reserved_start, aligned_reserved_end)

carve_out_region_exact(regs, reserved_start, reserved_size) ==
    IF reserved_size = 0 THEN [regions |-> regs, terminated |-> TRUE]
    ELSE CarveLoopExact(regs, 1, reserved_start, reserved_size)

carve_out_region_aligning(regs, reserved_start, reserved_size) ==
    IF reserved_size = 0 THEN [regions |-> regs, terminated |-> TRUE]
    ELSE LET reserved_end == reserved_start + reserved_size
         IN  CarveLoopAligning(regs, 1, AlignDown(reserved_start), AlignUp(reserved_end))

carve_out_region(regs, reserved_start, reserved_size, al) ==
    IF al THEN carve_out_region_aligning(regs, reserved_start, reserved_size)
          ELSE carve_out_region_exact(regs, reserved_start, reserved_size)

-----------------------------------------------------------------------------
(* Inputs *)

\* arguments of carve_out_region in sequences of map operations
Addresses == {0, PAGE_SIZE, 2 * PAGE_SIZE, 2 * PAGE_SIZE + 1}
Sizes     == {0, 1, PAGE_SIZE, 2 * PAGE_SIZE + 1}

\* arguments of add_region: page-aligned regions (two of them overlapping),
\* an empty region and a region that is not page-aligned
AddInputs ==
    {MemoryRegion(PAGE_SIZE, 3 * PAGE_SIZE),
     MemoryRegion(2 * PAGE_SIZE, PAGE_SIZE),
     MemoryRegion(16 * PAGE_SIZE, 2 * PAGE_SIZE),
     MemoryRegion(2 * PAGE_SIZE, 0),
     MemoryRegion(PAGE_SIZE + 1, PAGE_SIZE + PAGE_SIZE \div 2)}

\* the single region R and the reserved range X in SpecCarve:
\* starts and sizes on, one byte past and one byte before page boundaries
CarveOffsets == {0, 1, PAGE_SIZE - 1}
SingleRegions ==
    {MemoryRegion(p * PAGE_SIZE + d, k * PAGE_SIZE + e) :
        p \in 0 .. 1, d \in CarveOffsets, k \in 0 .. 2, e \in CarveOffsets}
ReservedRanges ==
    {MemoryRegion(p * PAGE_SIZE + d, k * PAGE_SIZE + e) :
        p \in 0 .. MaxPage, d \in CarveOffsets, k \in 0 .. 2, e \in CarveOffsets}

-----------------------------------------------------------------------------
(* Predicates on regions *)

\* the half-open byte range [start, start+size) of a region
Covers(region, a) == region.start <= a /\ a < region.start + region.size

Intersect(r1, r2) ==
    /\ r1.size > 0 /\ r2.size > 0
    /\ r1.start < r2.start + r2.size
    /\ r2.start < r1.start + r1.size

PageAligned(region) ==
    /\ region.start % PAGE_SIZE = 0
    /\ region.size % PAGE_SIZE = 0
    /\ region.size >= PAGE_SIZE

-----------------------------------------------------------------------------
(* Operations of the memory map *)

InitMap ==
    /\ regions = <<>>
    /\ aligning \in BOOLEAN
    /\ halted = "no"
    /\ add_overlap = FALSE
    /\ add_unaligned = FALSE
    /\ carve_unaligned = FALSE
    /\ orig = MemoryRegion(0, 0)
    /\ reserved = MemoryRegion(0, 0)

\* PhysicalBumpAllocator::new
InitAllocator ==
    /\ memory_regions = [i \in 1 .. RegionCapacity |-> MemoryRegion(0, 0)]
    /\ region_count = 0
    /\ current_region_index = 0
    /\ next_allocation_address = 0
    /\ returned = <<>>
    /\ resets = 0

\* no page table exists and no mapping call was made
NoCall ==
    [n |-> 0, op |-> "none", vpn |-> 0, ppn |-> None, flags |-> None,
     result |-> None, before |-> <<>>, after_success |-> FALSE,
     allocator_before |-> None]

InitMemory ==
    /\ memory = <<>>
    /\ mmu_call = NoCall

\* no blob was handed over and no walker ran
NoDtb ==
    [magic_be |-> <<>>, reservation_block |-> <<>>, structure_block |-> <<>>,
     strings_block |-> <<>>, pairs |-> <<>>, items |-> <<>>]

NoWalk ==
    [reservations |-> "none", visited |-> <<>>, structure |-> "none", trace |-> <<>>,
     reg |-> <<>>]

InitDtb ==
    /\ dtb = NoDtb
    /\ walk = NoWalk

\* boot_main was not entered
NotBooted ==
    [pc |-> "none", events |-> <<>>, kernel_size |-> 0, root |-> None, satp |-> None,
     memory_at_satp |-> None, root_failed |-> FALSE, mapping_failed |-> FALSE,
     harts |-> <<>>, core_harts |-> {}, entered |-> None]

InitBoot == boot = NotBooted

\* MemoryMap::add_region: regions[current_size] = ..; current_size += 1.
\* With every slot in use the index is out of bounds and the store panics.
AddRegion ==
    /\ halted = "no"
    /\ \E r \in AddInputs :
          IF current_size < RegionCapacity
          THEN /\ regions' = Append(regions, MemoryRegion(r.start, r.size))
               /\ add_overlap' = (add_overlap \/
                     \E i \in 1 .. Len(regions) : Intersect(regions[i], r))
               /\ add_unaligned' = (add_unaligned \/ ~PageAligned(r))
               /\ halted' = halted
          ELSE /\ halted' = "panic"
               /\ UNCHANGED <<regions, add_overlap, add_unaligned>>
    /\ last_op' = "add_region"
    /\ UNCHANGED <<aligning, carve_unaligned, orig, reserved, allocVars, mmuVars, dtbVars, boot>>

CarveOutRegion ==
    /\ halted = "no"
    /\ \E reserved_start \in Addresses, reserved_size \in Sizes :
          LET result == carve_out_region(regions, reserved_start, reserved_size, aligning)
          IN  /\ regions' = result.regions
              /\ halted' = IF result.terminated THEN halted ELSE "hang"
              /\ carve_unaligned' = (carve_unaligned
                                     \/ reserved_start % PAGE_SIZE # 0
                                     \/ reserved_size % PAGE_SIZE # 0)
    /\ last_op' = "carve_out_region"
    /\ UNCHANGED <<aligning, add_overlap, add_unaligned, orig, reserved, allocVars, mmuVars, dtbVars, boot>>

InitSpecMap ==
    InitMap /\ InitAllocator /\ InitMemory /\ InitDtb /\ InitBoot /\ last_op = "new"

NextMap == AddRegion \/ CarveOutRegion

\* any sequence of add_region and carve_out_region calls on a new MemoryMap
SpecMap == InitSpecMap /\ [][NextMap]_vars

-----------------------------------------------------------------------------
(* carve_out_region applied once to a map holding a single region *)

InitSpecCarve ==
    /\ aligning \in BOOLEAN
    /\ orig \in SingleRegions
    /\ regions = <<orig>>
    /\ reserved = MemoryRegion(0, 0)
    /\ halted = "no"
    /\ add_overlap = FALSE
    /\ add_unaligned = FALSE
    /\ carve_unaligned = FALSE
    /\ InitAllocator
    /\ InitMemory
    /\ InitDtb
    /\ InitBoot
    /\ last_op = "add_region"

CarveSingle ==
    /\ last_op = "add_region"
    /\ \E x \in ReservedRanges :
          LET result == carve_out_region(regions, x.start, x.size, aligning)
          IN  /\ regions' = result.regions
              /\ halted' = IF result.terminated THEN halted ELSE "hang"
              /\ reserved' = x
    /\ last_op' = "carve_out_region"
    /\ UNCHANGED <<aligning, add_overlap, add_unaligned, carve_unaligned, orig, allocVars, mmuVars, dtbVars, boot>>

SpecCarve == InitSpecCarve /\ [][CarveSingle]_vars

-----------------------------------------------------------------------------
(* PhysicalBumpAllocator *)

\* self.next_allocation_address += 4096
AdvanceNot(next) == next
Advance(next) == next + 4096

\* the allocation address on entering the region at 0-based index idx:
\* self.next_allocation_address = self.memory_regions[idx].start
EnterRegionStale(mr, idx, next) == next
EnterRegion(mr, idx, next) == mr[idx + 1].start

\* the loop of allocate_page; current_region_index (idx) is 0-based as in
\* the source
RECURSIVE AllocLoop(_, _, _, _)
AllocLoop(mr, count, idx, next) ==
    IF ~(idx < count) THEN [index |-> idx, next |-> next, result |-> None]
    ELSE
    LET current_region     == mr[idx + 1]
        region_end_address == current_region.start + current_region.size
    IN  IF next + 4096 > region_end_address
        THEN IF idx + 1 < count
             THEN AllocLoop(mr, count, idx + 1, EnterRegion(mr, idx + 1, next))
             ELSE [index |-> idx + 1, next |-> next, result |-> None]
        ELSE
        LET allocation_address == next
            advanced           == Advance(next)
        IN  IF advanced + 4096 > region_end_address
            THEN [index  |-> idx + 1,
                  next   |-> IF idx + 1 < count
                             THEN EnterRegion(mr, idx + 1, advanced)
                             ELSE advanced,
                  result |-> Some(allocation_address)]
            ELSE [index |-> idx, next |-> advanced, result |-> Some(allocation_address)]

\* PhysicalBumpAllocator::allocate_page
allocate_page(mr, count, idx, next) ==
    IF count = 0 THEN [index |-> idx, next |-> next, result |-> None]
    ELSE AllocLoop(mr, count, idx, next)

\* PhysicalBumpAllocator::reset: the new values of memory_regions,
\* region_count and next_allocation_address; current_region_index is not
\* assigned
reset(mr, next, regs, count) ==
    LET copy_count == IF count <= Len(mr) THEN count ELSE Len(mr)
        copied     == [i \in 1 .. Len(mr) |-> IF i <= copy_count THEN regs[i] ELSE mr[i]]
    IN  [memory_regions          |-> copied,
         region_count            |-> copy_count,
         next_allocation_address |-> IF copy_count > 0 THEN copied[1].start ELSE next]

\* maps the memory map produces: up to RegionCapacity add_region calls
\* followed by at most one carve_out_region
RECURSIVE AddedMaps(_)
AddedMaps(n) ==
    IF n = 0 THEN {<<>>}
    ELSE AddedMaps(n - 1)
         \cup {Append(m, r) : m \in {mm \in AddedMaps(n - 1) : Len(mm) = n - 1},
                              r \in AddInputs}

SnapshotMaps(al) ==
    AddedMaps(RegionCapacity)
    \cup {carve_out_region(m, a, sz, al).regions :
             m \in AddedMaps(RegionCapacity), a \in Addresses, sz \in Sizes}

InitSnapshot ==
    /\ aligning \in BOOLEAN
    /\ regions \in SnapshotMaps(aligning)
    /\ halted = "no"
    /\ add_overlap = FALSE
    /\ add_unaligned = FALSE
    /\ carve_unaligned = FALSE
    /\ orig = MemoryRegion(0, 0)
    /\ reserved = MemoryRegion(0, 0)
    /\ InitAllocator
    /\ InitMemory
    /\ InitDtb
    /\ InitBoot
    /\ last_op = "new"

\* create_physical_memory_allocator: reset(memory_map.get_regions(),
\* memory_map.get_region_count()) on the allocator just constructed
Reset ==
    /\ resets = 0
    /\ LET r == reset(memory_regions, next_allocation_address, regions, current_size)
       IN  /\ memory_regions' = r.memory_regions
           /\ region_count' = r.region_count
           /\ next_allocation_address' = r.next_allocation_address
    /\ returned' = <<>>
    /\ resets' = 1
    /\ last_op' = "reset"
    /\ UNCHANGED <<mapVars, mmuVars, dtbVars, boot, current_region_index>>

\* reset on an allocator in any state, with any count up to the map's
ResetAgain ==
    /\ resets < MaxResets
    /\ \E count \in 0 .. current_size :
          LET r == reset(memory_regions, next_allocation_address, regions, count)
          IN  /\ memory_regions' = r.memory_regions
              /\ region_count' = r.region_count
              /\ next_allocation_address' = r.next_allocation_address
    /\ returned' = <<>>
    /\ resets' = resets + 1
    /\ last_op' = "reset"
    /\ UNCHANGED <<mapVars, mmuVars, dtbVars, boot, current_region_index>>

AllocatePage ==
    /\ Len(returned) < MaxCalls
    /\ LET r == allocate_page(memory_regions, region_count,
                              current_region_index, next_allocation_address)
       IN  /\ current_region_index' = r.index
           /\ next_allocation_address' = r.next
           /\ returned' = Append(returned, r.result)
    /\ last_op' = "allocate_page"
    /\ UNCHANGED <<mapVars, mmuVars, dtbVars, boot, memory_regions, region_count, resets>>

\* the boot sequence: one reset on the new allocator, then allocate_page calls
NextAlloc == Reset \/ AllocatePage
SpecAlloc == InitSnapshot /\ [][NextAlloc]_vars

\* reset called any number of times between allocate_page calls
NextReset == ResetAgain \/ AllocatePage
SpecReset == InitSnapshot /\ [][NextReset]_vars

-----------------------------------------------------------------------------
(* 64-bit words.  Page-table entries, physical page numbers and physical    *)
(* and virtual addresses go beyond 2^31, so a word is the set of the        *)
(* positions of its 1 bits and the masks and shifts of the source are set   *)
(* operations.                                                              *)

WordBits == 0 .. 63

\* the word of a number below 2^31
FromInt(n) == {b \in 0 .. 30 : (n \div 2^b) % 2 = 1}

\* the number of a word that has no bit above bit 30
RECURSIVE ToInt(_)
ToInt(w) ==
    IF w = {} THEN 0
    ELSE LET b == CHOOSE x \in w : TRUE IN 2^b + ToInt(w \ {b})

\* w << n and w >> n on u64 / usize
Shl(w, n) == {b + n : b \in w} \cap WordBits
Shr(w, n) == {b - n : b \in w} \cap WordBits

-----------------------------------------------------------------------------
(* PhysicalPageNumber, VirtualPageNumber *)

\* PhysicalPageNumber::from_physical_address: physical_address >> 12
from_physical_address(physical_address) == Shr(physical_address, 12)

\* PhysicalPageNumber::to_physical_address: self.0 << 12
to_physical_address(ppn) == Shl(ppn, 12)

\* VirtualPageNumber::get_level_2_index, get_level_1_index, get_level_0_index
get_level_2_index(vpn) == (vpn \div 2^18) % 512
get_level_1_index(vpn) == (vpn \div 2^9) % 512
get_level_0_index(vpn) == vpn % 512

-----------------------------------------------------------------------------
(* PageTableEntry *)

FLAG_VALID    == {0}
FLAG_READ     == {1}
FLAG_WRITE    == {2}
FLAG_EXECUTE  == {3}
FLAG_USER     == {4}
FLAG_GLOBAL   == {5}
FLAG_ACCESSED == {6}
FLAG_DIRTY    == {7}

\* PageTableEntry::new, PageTableEntry::clear
ClearedEntry == {}

is_valid(entry)      == FLAG_VALID   \subseteq entry
is_readable(entry)   == FLAG_READ    \subseteq entry
is_writable(entry)   == FLAG_WRITE   \subseteq entry
is_executable(entry) == FLAG_EXECUTE \subseteq entry

\* the setters: self.0 |= FLAG when on, self.0 &= !FLAG otherwise
SetFlag(entry, flag, on) == IF on THEN entry \cup flag ELSE entry \ flag

set_valid(entry, valid) == SetFlag(entry, FLAG_VALID, valid)

\* PageTableEntry::set_flags
set_flags(entry, flags) ==
    LET r == SetFlag(entry, FLAG_READ, flags.readable)
        w == SetFlag(r, FLAG_WRITE, flags.writable)
        x == SetFlag(w, FLAG_EXECUTE, flags.executable)
        u == SetFlag(x, FLAG_USER, flags.user)
    IN  SetFlag(u, FLAG_GLOBAL, flags.global)

\* PageTableEntry::get_ppn: (self.0 >> 10) & 0x0000_0FFF_FFFF_FFFF
get_ppn(entry) == Shr(entry, 10) \cap (0 .. 43)

\* PageTableEntry::set_ppn:
\* (self.0 & !0x0000_003F_FFFF_FFF0) | ((ppn & 0x0000_0FFF_FFFF_FFFF) << 10);
\* the mask 0x0000_003F_FFFF_FFF0 has bits 4 .. 37 set
set_ppn(entry, ppn) == (entry \ (4 .. 37)) \cup Shl(ppn \cap (0 .. 43), 10)

\* PageTableEntry::is_leaf
is_leaf(entry) ==
    is_valid(entry) /\ (is_readable(entry) \/ is_writable(entry) \/ is_executable(entry))

-----------------------------------------------------------------------------
(* Physical memory read as page tables.  memory maps the physical page      *)
(* number of a frame to the entries the frame holds, by index; an index     *)
(* that is absent from a frame holds the zero entry.  The frames of the     *)
(* domain are the tables cleared by the boot code and the data frame whose  *)
(* contents the model chooses at the start.                                 *)

\* PageTable::get_entry through a pointer to the frame
get_entry(mem, frame, index) ==
    IF frame \in DOMAIN mem /\ index \in DOMAIN mem[frame]
    THEN mem[frame][index]
    ELSE ClearedEntry

\* PageTable::set_entry through a pointer to the frame
set_entry(mem, frame, index, entry) ==
    LET old   == IF frame \in DOMAIN mem THEN mem[frame] ELSE <<>>
        table == [i \in DOMAIN old \cup {index} |-> IF i = index THEN entry ELSE old[i]]
    IN  [f \in DOMAIN mem \cup {frame} |-> IF f = frame THEN table ELSE mem[f]]

\* PageTable::clear through a pointer to the frame
clear(mem, frame) ==
    [f \in DOMAIN mem \cup {frame} |-> IF f = frame THEN <<>> ELSE mem[f]]

-----------------------------------------------------------------------------
(* allocate_vpn *)

\* the state of the bump allocator that a mapping call works on
Allocator == [index |-> current_region_index, next |-> next_allocation_address]

\* the "entry is not valid" branch at level 2 and at level 1: allocate a
\* page, clear it, set the entry valid with the page's number and write it
\* back; none when the allocator fails (the ? operator)
InstallTable(mem, al, frame, index, entry) ==
    LET page == allocate_page(memory_regions, region_count, al.index, al.next)
        al2  == [index |-> page.index, next |-> page.next]
    IN  IF page.result = None
        THEN [ok |-> FALSE, memory |-> mem, allocator |-> al2, entry |-> entry]
        ELSE LET table_ppn == from_physical_address(FromInt(page.result[1]))
                 cleared   == clear(mem, table_ppn)
                 new_entry == set_ppn(set_valid(entry, TRUE), table_ppn)
             IN  [ok        |-> TRUE,
                  memory    |-> set_entry(cleared, frame, index, new_entry),
                  allocator |-> al2,
                  entry     |-> new_entry]

\* one level of the walk of allocate_vpn: the entry is used as it is when it
\* is valid and replaced by a pointer to a new table otherwise
Descend(mem, al, frame, index) ==
    LET entry == get_entry(mem, frame, index)
    IN  IF ~is_valid(entry)
        THEN InstallTable(mem, al, frame, index, entry)
        ELSE [ok |-> TRUE, memory |-> mem, allocator |-> al, entry |-> entry]

\* the level 0 part of allocate_vpn
MapLeaf(mem, al, frame, index, ppn, flags) ==
    LET entry == get_entry(mem, frame, index)
    IN  IF is_valid(entry) /\ is_leaf(entry)
        THEN [memory |-> mem, allocator |-> al, result |-> Some(get_ppn(entry))]
        ELSE
        LET page == IF ppn # None
                    THEN [index |-> al.index, next |-> al.next, result |-> ppn]
                    ELSE allocate_page(memory_regions, region_count, al.index, al.next)
            al2  == [index |-> page.index, next |-> page.next]
        IN  IF page.result = None
            THEN [memory |-> mem, allocator |-> al2, result |-> None]
            ELSE
            LET physical_page_ppn ==
                    IF ppn # None THEN ppn[1]
                    ELSE from_physical_address(FromInt(page.result[1]))
                leaf == set_ppn(set_flags(set_valid(ClearedEntry, TRUE), flags),
                                physical_page_ppn)
            IN  [memory    |-> set_entry(mem, frame, index, leaf),
                 allocator |-> al2,
                 result    |-> Some(physical_page_ppn)]

\* allocate_vpn(page_table_root, vpn, ppn, flags, physical_memory_allocator):
\* the memory and the allocator after the call, and the value returned
allocate_vpn(mem, page_table_root, vpn, ppn, flags, al) ==
    LET level_2 == Descend(mem, al, page_table_root, get_level_2_index(vpn))
    IN  IF ~level_2.ok
        THEN [memory |-> level_2.memory, allocator |-> level_2.allocator, result |-> None]
        ELSE
        LET level_1 == Descend(level_2.memory, level_2.allocator,
                               get_ppn(level_2.entry), get_level_1_index(vpn))
        IN  IF ~level_1.ok
            THEN [memory |-> level_1.memory, allocator |-> level_1.allocator,
                  result |-> None]
            ELSE MapLeaf(level_1.memory, level_1.allocator,
                         get_ppn(level_1.entry), get_level_0_index(vpn), ppn, flags)

-----------------------------------------------------------------------------
(* allocate_level_2_vpn *)

\* the two early returns of allocate_level_2_vpn
level_2_entry_leaf_only(entry) == is_valid(entry) /\ is_leaf(entry)
level_2_entry_taken(entry) == (is_valid(entry) /\ is_leaf(entry)) \/ is_valid(entry)

allocate_level_2_vpn(mem, page_table_root, vpn, ppn, flags) ==
    LET vpn2  == get_level_2_index(vpn)
        entry == get_entry(mem, page_table_root, vpn2)
    IN  IF level_2_entry_taken(entry)
        THEN [memory |-> mem, result |-> FALSE]
        ELSE LET leaf == set_ppn(set_flags(set_valid(ClearedEntry, TRUE), flags), ppn)
             IN  [memory |-> set_entry(mem, page_table_root, vpn2, leaf),
                  result |-> TRUE]

-----------------------------------------------------------------------------
(* translate_virtual_address *)

\* the 9-bit index (virtual_address >> shift) & 0x1FF
AddressIndex(virtual_address, shift) == ToInt(Shr(virtual_address, shift) \cap (0 .. 8))

\* if !entry.is_valid() { return None; }
walk_never_stops(entry) == FALSE
walk_stops(entry) == ~is_valid(entry)

translate_virtual_address(mem, page_table_root, virtual_address) ==
    LET vpn2   == AddressIndex(virtual_address, 30)
        vpn1   == AddressIndex(virtual_address, 21)
        vpn0   == AddressIndex(virtual_address, 12)
        offset == virtual_address \cap (0 .. 11)
        page_table_level_2_entry == get_entry(mem, page_table_root, vpn2)
    IN  IF walk_stops(page_table_level_2_entry) THEN None
        ELSE
        LET page_table_level_1_entry ==
                get_entry(mem, get_ppn(page_table_level_2_entry), vpn1)
        IN  IF walk_stops(page_table_level_1_entry) THEN None
            ELSE
            LET page_table_level_0_entry ==
                    get_entry(mem, get_ppn(page_table_level_1_entry), vpn0)
            IN  IF walk_stops(page_table_level_0_entry) THEN None
                ELSE Some(to_physical_address(get_ppn(page_table_level_0_entry))
                          \cup offset)

-----------------------------------------------------------------------------
(* The page tables of the boot stage: the allocator is reset on the memory  *)
(* map, the root table is the first page it hands out, cleared, and the     *)
(* mapping operations are then called on that root.                         *)

\* the memory map the allocator is reset on
BootRegions ==
    <<MemoryRegion(PAGE_SIZE, 2 * PAGE_SIZE), MemoryRegion(16 * PAGE_SIZE, 2 * PAGE_SIZE)>>

\* 9-bit indices used by the calls: the first and the last entry of a table
Indices == {0, 511}

\* the raw virtual page number (VirtualPageNumber.0) with these three indices
Vpn(i2, i1, i0) == i2 * 2^18 + i1 * 2^9 + i0

\* every virtual page number made of these indices
AllVpns == {Vpn(i2, i1, i0) : i2 \in Indices, i1 \in Indices, i0 \in Indices}

\* the virtual page numbers the mapping calls are given
Vpns == {Vpn(0, 0, 0), Vpn(0, 0, 511), Vpn(0, 511, 0), Vpn(511, 0, 511)}

\* the virtual page numbers allocate_level_2_vpn is given, one for each index
\* of the root table
GigaVpns == {Vpn(0, 0, 0), Vpn(511, 0, 511)}

\* a frame outside the allocator's regions, with PPN bits below and above the
\* mask of set_ppn
DataFrame == {0, 28, 43}

Flags(r, w, x, u, g) ==
    [readable |-> r, writable |-> w, executable |-> x, user |-> u, global |-> g]

FlagBundles == {Flags(FALSE, FALSE, FALSE, FALSE, FALSE),
                Flags(TRUE, TRUE, FALSE, FALSE, TRUE)}

Offsets == {0, 1, 4095}

\* boot_main: the root table is the page of the first allocate_page call
BootAllocator ==
    LET new == [i \in 1 .. RegionCapacity |-> MemoryRegion(0, 0)]
        r   == reset(new, 0, BootRegions, Len(BootRegions))
        p   == allocate_page(r.memory_regions, r.region_count, 0,
                             r.next_allocation_address)
    IN  [memory_regions |-> r.memory_regions, region_count |-> r.region_count,
         index |-> p.index, next |-> p.next, result |-> p.result]

root_page_table == from_physical_address(FromInt(BootAllocator.result[1]))

PpnInputs == {root_page_table, DataFrame}

\* what the data frame may hold before the boot code runs: zero, or a word
\* that reads as a valid entry with the number of the root table
DataFrameEntries == {ClearedEntry, set_ppn(set_valid(ClearedEntry, TRUE), root_page_table)}

InitSpecMmu ==
    /\ regions = BootRegions
    /\ aligning = TRUE
    /\ halted = "no"
    /\ add_overlap = FALSE
    /\ add_unaligned = FALSE
    /\ carve_unaligned = FALSE
    /\ orig = MemoryRegion(0, 0)
    /\ reserved = MemoryRegion(0, 0)
    /\ memory_regions = BootAllocator.memory_regions
    /\ region_count = BootAllocator.region_count
    /\ current_region_index = BootAllocator.index
    /\ next_allocation_address = BootAllocator.next
    /\ returned = <<BootAllocator.result>>
    /\ resets = 1
    /\ \E data \in [Indices -> DataFrameEntries] :
          memory = [f \in {root_page_table, DataFrame} |->
                        IF f = root_page_table THEN <<>> ELSE data]
    /\ mmu_call = NoCall
    /\ InitDtb
    /\ InitBoot
    /\ last_op = "clear"

AllocateVpn ==
    /\ mmu_call.n < MaxMmuCalls
    /\ \E vpn \in Vpns, ppn \in {None, Some(DataFrame)}, flags \in FlagBundles :
          LET r == allocate_vpn(memory, root_page_table, vpn, ppn, flags, Allocator)
          IN  /\ memory' = r.memory
              /\ current_region_index' = r.allocator.index
              /\ next_allocation_address' = r.allocator.next
              /\ mmu_call' = [n |-> mmu_call.n + 1, op |-> "allocate_vpn",
                              vpn |-> vpn, ppn |-> ppn, flags |-> flags,
                              result |-> r.result, before |-> memory,
                              after_success |->
                                  /\ mmu_call.op = "allocate_vpn"
                                  /\ mmu_call.result # None
                                  /\ mmu_call.vpn = vpn,
                              allocator_before |-> Some(Allocator)]
    /\ last_op' = "allocate_vpn"
    /\ UNCHANGED <<mapVars, dtbVars, boot, memory_regions, region_count, returned, resets>>

AllocateLevel2Vpn ==
    /\ mmu_call.n < MaxMmuCalls
    /\ \E vpn \in GigaVpns, ppn \in PpnInputs, flags \in FlagBundles :
          LET r == allocate_level_2_vpn(memory, root_page_table, vpn, ppn, flags)
          IN  /\ memory' = r.memory
              /\ mmu_call' = [n |-> mmu_call.n + 1, op |-> "allocate_level_2_vpn",
                              vpn |-> vpn, ppn |-> Some(ppn), flags |-> flags,
                              result |-> r.result, before |-> memory,
                              after_success |->
                                  /\ mmu_call.op = "allocate_level_2_vpn"
                                  /\ mmu_call.result = TRUE
                                  /\ get_level_2_index(mmu_call.vpn)
                                        = get_level_2_index(vpn),
                              allocator_before |-> Some(Allocator)]
    /\ last_op' = "allocate_level_2_vpn"
    /\ UNCHANGED <<mapVars, allocVars, dtbVars, boot>>

NextMmu == AllocateVpn \/ AllocateLevel2Vpn

\* any sequence of allocate_vpn and allocate_level_2_vpn calls on the root
SpecMmu == InitSpecMmu /\ [][NextMmu]_vars

-----------------------------------------------------------------------------
(* map_physical_memory: the direct map of the boot stage *)

\* sample gigabytes of the direct map whose first word physical memory holds
\* something when the boot code starts
GarbageGigabytes == {0, 1, 2, 127}

\* the physical page number gib_index << 18 of a direct-mapped gigabyte
GigabytePpn(gib_index) == Shl(FromInt(gib_index), 18)

\* what the first word of a gigabyte may hold: zero, a word that reads as a
\* valid entry with the number of the gigabyte's own first frame, or one that
\* reads as a valid entry with the number of the root table
GarbageEntries(gib_index) ==
    {ClearedEntry,
     set_ppn(set_valid(ClearedEntry, TRUE), GigabytePpn(gib_index)),
     set_ppn(set_valid(ClearedEntry, TRUE), root_page_table)}

\* one iteration of the loop of map_physical_memory: a failed
\* allocate_level_2_vpn is reported and the loop goes on
MapGigabyte(mem, page_table_root, gib_index) ==
    LET vpn2_index == 512 - GIGABYTES_TO_MAP + gib_index
        vpn == vpn2_index * 2^18
        ppn == GigabytePpn(gib_index)
    IN  allocate_level_2_vpn(mem, page_table_root, vpn, ppn,
                             Flags(TRUE, TRUE, FALSE, FALSE, TRUE)).memory

\* the iterations first .. last - 1 of the loop, in order.  The range is
\* halved and the memory after the first half is worked out before the
\* second half is entered, which keeps the evaluation shallow.
RECURSIVE MapGigabytes(_, _, _, _)
MapGigabytes(mem, page_table_root, first, last) ==
    IF last <= first THEN mem
    ELSE IF last = first + 1 THEN MapGigabyte(mem, page_table_root, first)
    ELSE LET middle == (first + last) \div 2
             half   == MapGigabytes(mem, page_table_root, first, middle)
         IN  IF half = mem
             THEN MapGigabytes(mem, page_table_root, middle, last)
             ELSE MapGigabytes(half, page_table_root, middle, last)

map_physical_memory(mem, page_table_root) ==
    MapGigabytes(mem, page_table_root, 0, GIGABYTES_TO_MAP)

\* the root table is cleared and nothing is mapped; the first words of the
\* sample gigabytes hold any of the words above
InitSpecDirectMap ==
    /\ regions = BootRegions
    /\ aligning = TRUE
    /\ halted = "no"
    /\ add_overlap = FALSE
    /\ add_unaligned = FALSE
    /\ carve_unaligned = FALSE
    /\ orig = MemoryRegion(0, 0)
    /\ reserved = MemoryRegion(0, 0)
    /\ memory_regions = BootAllocator.memory_regions
    /\ region_count = BootAllocator.region_count
    /\ current_region_index = BootAllocator.index
    /\ next_allocation_address = BootAllocator.next
    /\ returned = <<BootAllocator.result>>
    /\ resets = 1
    /\ \E first \in [GarbageGigabytes -> UNION {GarbageEntries(g) : g \in GarbageGigabytes}] :
          /\ \A g \in GarbageGigabytes : first[g] \in GarbageEntries(g)
          /\ memory = [f \in {root_page_table} \cup {GigabytePpn(g) : g \in GarbageGigabytes} |->
                          IF f = root_page_table THEN <<>>
                          ELSE LET g == CHOOSE g \in GarbageGigabytes : GigabytePpn(g) = f
                               IN  [i \in {0} |-> first[g]]]
    /\ mmu_call = NoCall
    /\ InitDtb
    /\ InitBoot
    /\ last_op = "clear"

MapPhysicalMemory ==
    /\ last_op = "clear"
    /\ memory' = map_physical_memory(memory, root_page_table)
    /\ mmu_call' = [mmu_call EXCEPT !.n = 1, !.op = "map_physical_memory",
                                    !.before = memory]
    /\ last_op' = "map_physical_memory"
    /\ UNCHANGED <<mapVars, allocVars, dtbVars, boot>>

\* map_physical_memory applied once to an empty root table
SpecDirectMap == InitSpecDirectMap /\ [][MapPhysicalMemory]_vars

-----------------------------------------------------------------------------
(* Device tree blob: src/kernel/src/dtb/mod.rs *)

\* A u32 or u64 value is the sequence of its bytes as riscv64 holds them in
\* memory, least significant byte first; an address is a byte offset from
\* the start of a block.
Reverse(s) == [i \in 1 .. Len(s) |-> s[Len(s) + 1 - i]]

\* the number a u32 stands for (below 2^31 for every word of the model)
U32(word) == word[1] + 256 * word[2] + 65536 * word[3] + 16777216 * word[4]

\* the u32 that stands for a number
ToU32(n) == <<n % 256, (n \div 256) % 256, (n \div 65536) % 256, (n \div 16777216) % 256>>

\* u32::from_be on a little-endian target: swap_bytes
from_be(word) == Reverse(word)

\* the bytes a blob holds for a value: most significant byte first
BigEndian(word) == Reverse(word)

\* a read through a raw pointer; memory beyond the block reads as zero
ByteAt(block, address) == IF address + 1 \in DOMAIN block THEN block[address + 1] ELSE 0

\* *(address as *const u32)
ReadU32(block, address) == [i \in 1 .. 4 |-> ByteAt(block, address + i - 1)]

\* a u64 field read through a reference to a #[repr(C)] struct
ReadU64(block, address) == [i \in 1 .. 8 |-> ByteAt(block, address + i - 1)]

Zero64 == [i \in 1 .. 8 |-> 0]

\* (address + 3) & !3
Align4(address) == ((address + 3) \div 4) * 4

\* read_null_terminated_string: the bytes from address up to the first zero
RECURSIVE read_null_terminated_string(_, _)
read_null_terminated_string(block, address) ==
    IF ByteAt(block, address) = 0 THEN <<>>
    ELSE <<ByteAt(block, address)>> \o read_null_terminated_string(block, address + 1)

\* CellInfo::default(): address_cells 2, size_cells 1
DefaultCellInfo == [address_cells |-> ToU32(2), size_cells |-> ToU32(1)]

\* "#address-cells", "#size-cells" and "reg" in ASCII
AddressCellsName == <<35, 97, 100, 100, 114, 101, 115, 115, 45, 99, 101, 108, 108, 115>>
SizeCellsName == <<35, 115, 105, 122, 101, 45, 99, 101, 108, 108, 115>>
RegName == <<114, 101, 103>>

-----------------------------------------------------------------------------
(* walk_memory_reservation_entries *)

\* size_of::<DtbMemoryReservationEntry>(): two u64 fields
EntrySize == 16

\* the loop of walk_memory_reservation_entries from index on; visited is the
\* sequence of the entries handed to the callback so far
RECURSIVE ReservationLoop(_, _, _)
ReservationLoop(block, index, visited) ==
    LET memory_reservation_entry_address == index * EntrySize
        memory_reservation_entry ==
            [address |-> ReadU64(block, memory_reservation_entry_address),
             size    |-> ReadU64(block, memory_reservation_entry_address + 8)]
    IN  IF memory_reservation_entry.address = Zero64
           /\ memory_reservation_entry.size = Zero64
        THEN visited
        ELSE ReservationLoop(block, index + 1, Append(visited, memory_reservation_entry))

walk_memory_reservation_entries(blob) == ReservationLoop(blob.reservation_block, 0, <<>>)

-----------------------------------------------------------------------------
(* walk_structure_block, parse_node, process_properties, parse_property *)

\* what a walk leaves behind, in order: the tokens read by each loop and the
\* callbacks invoked
TokenRead(loop, token, address, node_depth) ==
    [kind |-> "token", loop |-> loop, token |-> token, address |-> address,
     depth |-> node_depth]

NodeCallback(node_name, node_depth, address) ==
    [kind |-> "node", name |-> node_name, depth |-> node_depth, address |-> address]

PropertyCallback(property, cells_info, node_depth) ==
    [kind |-> "property", property |-> property, cells_info |-> cells_info,
     depth |-> node_depth]

\* the token at an address: u32::from_be(*token_address)
TokenAt(blob, address) == U32(from_be(ReadU32(blob.structure_block, address)))

\* DtbProperty::get_property_data_as_u32
get_property_data_as_u32(blob, property) ==
    from_be(ReadU32(blob.structure_block, property.data_address))

parse_property(blob, node_address) ==
    LET data_length == U32(from_be(ReadU32(blob.structure_block, node_address)))
        nameoff     == U32(from_be(ReadU32(blob.structure_block, node_address + 4)))
        property_name == read_null_terminated_string(blob.strings_block, nameoff)
        current_address == node_address + 8
    IN  [property |-> [name |-> property_name, data_address |-> current_address,
                       data_length |-> data_length],
         next_address |-> Align4(current_address + data_length)]

\* the closure of the pre-pass of parse_node: the two special properties
\* overwrite the cell info of the node
UpdateCellInfo(blob, cells_info, property) ==
    IF property.name = AddressCellsName
    THEN [cells_info EXCEPT !.address_cells = get_property_data_as_u32(blob, property)]
    ELSE IF property.name = SizeCellsName
    THEN [cells_info EXCEPT !.size_cells = get_property_data_as_u32(blob, property)]
    ELSE cells_info

\* process_properties.  pass "cells" is the pre-pass, whose callback is the
\* closure above working on the cell info of the node (node_cells_info);
\* pass "callback" invokes the property callback of the walk with the
\* current_cells_info it was given.
RECURSIVE process_properties(_, _, _, _, _, _, _)
process_properties(blob, current_address, current_cells_info, node_depth, pass, node_cells_info, trace) ==
    LET token == TokenAt(blob, current_address)
        read  == Append(trace, TokenRead("process_properties", token, current_address,
                                         node_depth))
    IN  IF token # FDT_PROP
        THEN [address |-> current_address, cells_info |-> node_cells_info, trace |-> read]
        ELSE
        LET parsed == parse_property(blob, current_address + 4)
        IN  IF pass = "cells"
            THEN process_properties(blob, parsed.next_address, current_cells_info,
                                    node_depth, pass,
                                    UpdateCellInfo(blob, node_cells_info, parsed.property),
                                    read)
            ELSE process_properties(blob, parsed.next_address, current_cells_info,
                                    node_depth, pass, node_cells_info,
                                    Append(read, PropertyCallback(parsed.property,
                                                                  current_cells_info,
                                                                  node_depth)))

\* the depth handed to parse_node for a child node
SameDepth(node_depth) == node_depth
ChildDepth(node_depth) == node_depth + 1

RECURSIVE parse_node(_, _, _, _, _)
RECURSIVE ParseNodeLoop(_, _, _, _, _)

\* the loop of parse_node; the result is the address returned and the trace
ParseNodeLoop(blob, current_address, node_depth, current_cells_info, trace) ==
    LET token == TokenAt(blob, current_address)
        read  == Append(trace, TokenRead("parse_node", token, current_address, node_depth))
        next  == current_address + 4
    IN  IF token = FDT_PROP
        THEN LET pre  == process_properties(blob, current_address, current_cells_info,
                                            node_depth, "cells", current_cells_info, read)
                 pass == process_properties(blob, current_address, pre.cells_info,
                                            node_depth, "callback", pre.cells_info,
                                            pre.trace)
             IN  ParseNodeLoop(blob, pass.address, node_depth, pre.cells_info, pass.trace)
        ELSE IF token = FDT_BEGIN_NODE
        THEN LET child == parse_node(blob, next, ChildDepth(node_depth),
                                     current_cells_info, read)
             IN  ParseNodeLoop(blob, child.address, node_depth, current_cells_info,
                               child.trace)
        ELSE IF token = FDT_END_NODE
        THEN [address |-> next, trace |-> read]
        ELSE IF token = FDT_NOP
        THEN ParseNodeLoop(blob, next, node_depth, current_cells_info, read)
        ELSE \* FDT_END and every other token: return current_address
             [address |-> next, trace |-> read]

parse_node(blob, current_address, node_depth, parent_cells_info, trace) ==
    LET node_name == read_null_terminated_string(blob.structure_block, current_address)
    IN  ParseNodeLoop(blob, Align4(current_address + Len(node_name) + 1), node_depth,
                      parent_cells_info,
                      Append(trace, NodeCallback(node_name, node_depth, current_address)))

\* the loop of walk_structure_block
RECURSIVE StructureLoop(_, _, _)
StructureLoop(blob, current_address, trace) ==
    LET token == TokenAt(blob, current_address)
        read  == Append(trace, TokenRead("walk_structure_block", token, current_address, 0))
        next  == current_address + 4
    IN  IF token = FDT_BEGIN_NODE
        THEN LET node == parse_node(blob, next, 0, DefaultCellInfo, read)
             IN  StructureLoop(blob, node.address, node.trace)
        ELSE IF token = FDT_NOP
        THEN StructureLoop(blob, next, read)
        ELSE \* FDT_END and every other token: break
             read

walk_structure_block(blob) == StructureLoop(blob, 0, <<>>)

-----------------------------------------------------------------------------
(* Blobs handed to the kernel *)

\* the four bytes of a big-endian cell holding a number
Cell(n) == BigEndian(ToU32(n))

\* bytes followed by zero bytes up to the next multiple of four
RECURSIVE Pad(_)
Pad(bytes) == IF Len(bytes) % 4 = 0 THEN bytes ELSE Pad(Append(bytes, 0))

\* "memory" in ASCII
MemoryName == <<109, 101, 109, 111, 114, 121>>

\* the strings block, and the offset at which it holds a name
StringsBlock == AddressCellsName \o <<0>> \o SizeCellsName \o <<0>> \o RegName \o <<0>>

NameOffset(name) ==
    CHOOSE offset \in 0 .. Len(StringsBlock) :
        /\ offset = 0 \/ StringsBlock[offset] = 0
        /\ read_null_terminated_string(StringsBlock, offset) = name

\* the items of a structure block
BeginNode(name) == [kind |-> "begin_node", name |-> name]
EndNode == [kind |-> "end_node"]
Prop(nameoff, data) == [kind |-> "prop", nameoff |-> nameoff, data |-> data]
Nop == [kind |-> "nop"]
End == [kind |-> "end"]
Other(token) == [kind |-> "other", token |-> token]

\* #address-cells = 1 and #size-cells = 2 (the defaults are 2 and 1), and a
\* reg property of three cells
AddressCellsProp == Prop(NameOffset(AddressCellsName), Cell(1))
SizeCellsProp == Prop(NameOffset(SizeCellsName), Cell(2))
RegProp == Prop(NameOffset(RegName), Cell(64) \o Cell(16) \o Cell(32))

\* the items that blocks are made of; 7 is a token value that the format
\* does not define
StructureItems ==
    {BeginNode(MemoryName), EndNode, AddressCellsProp, SizeCellsProp, RegProp, Nop, End,
     Other(7)}

\* the bytes of an item in a structure block
ItemBytes(item) ==
    CASE item.kind = "begin_node" -> Cell(FDT_BEGIN_NODE) \o Pad(Append(item.name, 0))
      [] item.kind = "end_node"   -> Cell(FDT_END_NODE)
      [] item.kind = "prop"       -> Cell(FDT_PROP) \o Cell(Len(item.data))
                                     \o Cell(item.nameoff) \o Pad(item.data)
      [] item.kind = "nop"        -> Cell(FDT_NOP)
      [] item.kind = "end"        -> Cell(FDT_END)
      [] item.kind = "other"      -> Cell(item.token)

RECURSIVE BlockBytes(_)
BlockBytes(items) ==
    IF items = <<>> THEN <<>> ELSE ItemBytes(Head(items)) \o BlockBytes(Tail(items))

\* 0xd00dfeed, and what the magic field of a header may hold instead
FDT_MAGIC == <<237, 254, 13, 208>>
MagicFields == {BigEndian(FDT_MAGIC), FDT_MAGIC, <<0, 0, 0, 0>>}

\* u64 values of reservation entries: 0x80000000, 0x1000, 0x80100000, 0x2000
\* (Scenario A) and 0
ReservationPairs ==
    {<< <<0, 0, 0, 128, 0, 0, 0, 0>>, <<0, 16, 0, 0, 0, 0, 0, 0>> >>,
     << <<0, 0, 16, 128, 0, 0, 0, 0>>, <<0, 32, 0, 0, 0, 0, 0, 0>> >>,
     << Zero64, <<0, 16, 0, 0, 0, 0, 0, 0>> >>}

\* the bytes of a reservation block: the entries, big-endian, and the
\* terminator
RECURSIVE ReservationBytes(_)
ReservationBytes(pairs) ==
    IF pairs = <<>> THEN Zero64 \o Zero64
    ELSE BigEndian(Head(pairs)[1]) \o BigEndian(Head(pairs)[2])
         \o ReservationBytes(Tail(pairs))

\* every sequence of at most n elements of a set
SeqUpTo(S, n) == UNION {[1 .. k -> S] : k \in 0 .. n}

\* a blob: header, blocks, and the entries and items its bytes were made of
Blob(magic_be, pairs, items) ==
    [magic_be |-> magic_be,
     reservation_block |-> ReservationBytes(pairs),
     structure_block |-> BlockBytes(items),
     strings_block |-> StringsBlock,
     pairs |-> pairs,
     items |-> items]

\* a root node with its cell properties, a memory node inside it
SampleTree ==
    <<BeginNode(<<>>), AddressCellsProp, SizeCellsProp, BeginNode(MemoryName), RegProp,
      EndNode, EndNode, End>>

\* kernel_main receives the address of a blob; the walkers are then run on it
InitSpecDtb ==
    /\ InitMap /\ aligning = TRUE
    /\ InitAllocator /\ InitMemory /\ InitBoot
    /\ \E magic_be \in MagicFields, pairs \in SeqUpTo(ReservationPairs, MaxEntries),
          items \in {SampleTree, <<End>>} :
          dtb = Blob(magic_be, pairs, items)
    /\ walk = NoWalk
    /\ last_op = "kernel_main"

\* a structure block of any items, closed by an END token
InitSpecStructure ==
    /\ InitMap /\ aligning = TRUE
    /\ InitAllocator /\ InitMemory /\ InitBoot
    /\ \E items \in SeqUpTo(StructureItems, MaxItems) :
          dtb = Blob(BigEndian(FDT_MAGIC), <<>>, Append(items, End))
    /\ walk = NoWalk
    /\ last_op = "kernel_main"

WalkMemoryReservationEntries ==
    /\ dtb # NoDtb
    /\ walk.reservations = "none"
    /\ walk' = [walk EXCEPT !.reservations = "done",
                            !.visited = walk_memory_reservation_entries(dtb)]
    /\ last_op' = "walk_memory_reservation_entries"
    /\ UNCHANGED <<mapVars, allocVars, mmuVars, dtb, boot>>

WalkStructureBlock ==
    /\ dtb # NoDtb
    /\ walk.structure = "none"
    /\ walk' = [walk EXCEPT !.structure = "done", !.trace = walk_structure_block(dtb)]
    /\ last_op' = "walk_structure_block"
    /\ UNCHANGED <<mapVars, allocVars, mmuVars, dtb, boot>>

NextDtb == WalkMemoryReservationEntries \/ WalkStructureBlock

\* the two walkers, each run once on the blob, in either order
SpecDtb == InitSpecDtb /\ [][NextDtb]_vars

\* walk_structure_block run once on a structure block
SpecStructure == InitSpecStructure /\ [][WalkStructureBlock]_vars

-----------------------------------------------------------------------------
(* DtbProperty::get_property_data_as_reg *)

\* (value << 32) | cell_value as u64
ShiftInCell(value, cell_value) == [i \in 1 .. 8 |-> IF i <= 4 THEN cell_value[i] ELSE value[i - 4]]

\* for i in 0..cells: the value after the cells i .. cells - 1 were read at
\* base + i * 4
RECURSIVE ReadCells(_, _, _, _, _)
ReadCells(block, base, i, cells, value) ==
    IF i >= cells THEN value
    ELSE ReadCells(block, base, i + 1, cells,
                   ShiftInCell(value, from_be(ReadU32(block, base + i * 4))))

\* the addresses of the bytes that the cell loop reads
CellReads(base, cells) == {base + k : k \in 0 .. cells * 4 - 1}

\* the while loop of get_property_data_as_reg from offset on: the callbacks
\* invoked, the addresses read, and whether the loop ends.  An iteration
\* with entry_bytes = 0 invokes the callback and leaves offset as it was, so
\* the loop repeats it for ever.
RECURSIVE RegLoop(_, _, _, _, _, _)
RegLoop(block, property, cells_info, offset, calls, reads) ==
    LET address_cells == U32(cells_info.address_cells)
        size_cells    == U32(cells_info.size_cells)
        address_bytes == address_cells * 4
        size_bytes    == size_cells * 4
        entry_bytes   == address_bytes + size_bytes
        address == ReadCells(block, property.data_address + offset, 0, address_cells,
                             Zero64)
        size    == ReadCells(block, property.data_address + offset + address_bytes, 0,
                             size_cells, Zero64)
        call    == [address |-> address, size |-> size]
        read    == CellReads(property.data_address + offset, address_cells)
                   \cup CellReads(property.data_address + offset + address_bytes,
                                  size_cells)
    IN  IF offset + entry_bytes <= property.data_length
        THEN IF entry_bytes = 0
             THEN [calls |-> Append(calls, call), reads |-> reads, returns |-> FALSE]
             ELSE RegLoop(block, property, cells_info, offset + entry_bytes,
                          Append(calls, call), reads \cup read)
        ELSE [calls |-> calls, reads |-> reads, returns |-> TRUE]

get_property_data_as_reg(blob, property, cells_info) ==
    RegLoop(blob.structure_block, property, cells_info, 0, <<>>, {})

\* big-endian cells that reg properties are made of: 0x80000123, 0x02001000,
\* 0x00000001, and bytes that may follow the last whole cell
RegCells == {<<128, 0, 1, 35>>, <<2, 0, 16, 0>>, <<0, 0, 0, 1>>}
RegTails == {<<>>, <<255, 255>>}

RECURSIVE Flatten(_)
Flatten(seqs) == IF seqs = <<>> THEN <<>> ELSE Head(seqs) \o Flatten(Tail(seqs))

\* a memory node with one reg property, followed by a node that has one too
RegTree(data) ==
    <<BeginNode(MemoryName), Prop(NameOffset(RegName), data), EndNode,
      BeginNode(MemoryName), RegProp, EndNode, End>>

\* the property of the first node, as parse_property finds it
RegTreeProperty ==
    parse_property(dtb, Len(ItemBytes(BeginNode(MemoryName))) + 4).property

InitSpecReg ==
    /\ InitMap /\ aligning = TRUE
    /\ InitAllocator /\ InitMemory /\ InitBoot
    /\ \E cells \in SeqUpTo(RegCells, MaxCells), tail \in RegTails :
          dtb = Blob(BigEndian(FDT_MAGIC), <<>>, RegTree(Flatten(cells) \o tail))
    /\ walk = NoWalk
    /\ last_op = "kernel_main"

\* get_property_data_as_reg called on the property with the cell info of a node
GetPropertyDataAsReg ==
    /\ walk.reg = <<>>
    /\ \E address_cells \in 0 .. MaxCellCount, size_cells \in 0 .. MaxCellCount :
          LET cells_info == [address_cells |-> ToU32(address_cells),
                             size_cells |-> ToU32(size_cells)]
              property == RegTreeProperty
              r == get_property_data_as_reg(dtb, property, cells_info)
          IN  walk' = [walk EXCEPT !.reg = <<[property |-> property,
                                              cells_info |-> cells_info,
                                              calls |-> r.calls,
                                              reads |-> r.reads,
                                              returns |-> r.returns]>>]
    /\ last_op' = "get_property_data_as_reg"
    /\ UNCHANGED <<mapVars, allocVars, mmuVars, dtb, boot>>

\* get_property_data_as_reg called once on a reg property
SpecReg == InitSpecReg /\ [][GetPropertyDataAsReg]_vars

-----------------------------------------------------------------------------
(* populate_memory_map_from_dtb: src/kernel/src/memory/memory_map.rs *)

\* MemoryMap::add_region on a map [regions, halted]: the store into
\* regions[current_size] is out of bounds, and panics, when the map is full
add_region(map, start, size) ==
    IF map.halted # "no" THEN map
    ELSE IF Len(map.regions) < RegionCapacity
    THEN [map EXCEPT !.regions = Append(map.regions, MemoryRegion(start, size))]
    ELSE [map EXCEPT !.halted = "panic"]

\* address as usize, size as usize (the values of the model are below 2^31)
AsUsize(value) == U32(SubSeq(value, 1, 4))

\* the closure that populate_memory_map_from_dtb hands to
\* get_property_data_as_reg
AddAlignedRegion(map, address, size) ==
    LET original_start   == AsUsize(address)
        original_size    == AsUsize(size)
        aligned_start    == AlignUp(original_start)
        start_adjustment == aligned_start - original_start
        adjusted_size    == IF start_adjustment < original_size
                            THEN original_size - start_adjustment
                            ELSE 0
        aligned_size     == AlignDown(adjusted_size)
    IN  IF aligned_size >= PAGE_SIZE
        THEN add_region(map, aligned_start, aligned_size)
        ELSE map

RECURSIVE AddAlignedRegions(_, _)
AddAlignedRegions(map, calls) ==
    IF calls = <<>> THEN map
    ELSE AddAlignedRegions(AddAlignedRegion(map, Head(calls).address, Head(calls).size),
                           Tail(calls))

\* the node a property callback belongs to: the last node callback before it
\* at the depth of the property
NodeOfCallback(trace, i) ==
    LET nodes == {j \in 1 .. i - 1 : /\ trace[j].kind = "node"
                                    /\ trace[j].depth = trace[i].depth}
    IN  trace[CHOOSE j \in nodes : \A k \in nodes : k <= j]

\* node.name != "memory" && !node.name.starts_with("memory@")
IsMemoryNode(name) ==
    \/ name = MemoryName
    \/ /\ Len(name) > Len(MemoryName)
       /\ SubSeq(name, 1, Len(MemoryName) + 1) = Append(MemoryName, 64)

\* the property callback of populate_memory_map_from_dtb applied to the
\* callbacks of the walk from i on; pairs collects the (address, size) pairs
\* that get_property_data_as_reg hands to the closure
RECURSIVE PopulateLoop(_, _, _, _, _)
PopulateLoop(blob, trace, i, map, pairs) ==
    IF i > Len(trace) THEN [map |-> map, pairs |-> pairs]
    ELSE IF /\ trace[i].kind = "property"
            /\ IsMemoryNode(NodeOfCallback(trace, i).name)
            /\ trace[i].property.name = RegName
    THEN LET r == get_property_data_as_reg(blob, trace[i].property, trace[i].cells_info)
             m == AddAlignedRegions(map, r.calls)
         IN  IF r.returns
             THEN PopulateLoop(blob, trace, i + 1, m, pairs \o r.calls)
             ELSE [map |-> [m EXCEPT !.halted = "hang"], pairs |-> pairs \o r.calls]
    ELSE PopulateLoop(blob, trace, i + 1, map, pairs)

populate_memory_map_from_dtb(map, blob) ==
    PopulateLoop(blob, walk_structure_block(blob), 1, map, <<>>)

\* (address, size) pairs of memory nodes: Scenario A's range moved down by
\* 0x40000000, an aligned range, ranges that lose their first or last part,
\* and ranges of which less than a page remains
PopulatePairs ==
    {<<1073742115, 33558528>>, <<4096, 8192>>, <<4097, 8191>>, <<4097, 8190>>,
     <<8191, 4096>>, <<12288, 0>>}

\* n as the cells of a value of count cells
CellsOf(n, count) == IF count = 2 THEN Cell(0) \o Cell(n) ELSE Cell(n)

RECURSIVE RegDataOf(_, _, _)
RegDataOf(pairs, address_cells, size_cells) ==
    IF pairs = <<>> THEN <<>>
    ELSE CellsOf(Head(pairs)[1], address_cells) \o CellsOf(Head(pairs)[2], size_cells)
         \o RegDataOf(Tail(pairs), address_cells, size_cells)

\* a root node that declares the cell counts and has a reg property of its
\* own, and a memory node with the reg property of the pairs
PopulateTree(pairs, address_cells, size_cells) ==
    <<BeginNode(<<>>),
      Prop(NameOffset(AddressCellsName), Cell(address_cells)),
      Prop(NameOffset(SizeCellsName), Cell(size_cells)),
      Prop(NameOffset(RegName), CellsOf(4096, address_cells) \o CellsOf(4096, size_cells)),
      BeginNode(Append(MemoryName, 64)),
      Prop(NameOffset(RegName), RegDataOf(pairs, address_cells, size_cells)),
      EndNode, EndNode, End>>

\* kernel_main: MemoryMap::new(), and the blob the firmware handed over
InitSpecPopulate ==
    /\ InitMap /\ aligning = TRUE
    /\ InitAllocator /\ InitMemory /\ InitBoot
    /\ \E pairs \in SeqUpTo(PopulatePairs, MaxPairs), cells \in 1 .. 2 :
          dtb = Blob(BigEndian(FDT_MAGIC), <<>>, PopulateTree(pairs, cells, cells))
    /\ walk = NoWalk
    /\ last_op = "new"

PopulateMemoryMapFromDtb ==
    /\ last_op = "new"
    /\ \E r \in {populate_memory_map_from_dtb([regions |-> regions, halted |-> halted],
                                              dtb)} :
          /\ regions' = r.map.regions
          /\ halted' = r.map.halted
          /\ walk' = [walk EXCEPT !.reg = r.pairs]
    /\ last_op' = "populate_memory_map_from_dtb"
    /\ UNCHANGED <<aligning, add_overlap, add_unaligned, carve_unaligned, orig, reserved,
                   allocVars, mmuVars, dtb, boot>>

\* populate_memory_map_from_dtb called once on a new map
SpecPopulate == InitSpecPopulate /\ [][PopulateMemoryMapFromDtb]_vars

-----------------------------------------------------------------------------
(* The boot stage: boot_main and setup_mmu *)

\* the state that a bulk mapping works on: the memory, the allocator,
\* whether an allocate_vpn call has returned none so far (which happens
\* exactly when an allocate_page call inside it returned none), and the
\* allocate_vpn calls made so far
Mapping(mem, al, failed, called) ==
    [memory |-> mem, allocator |-> al, failed |-> failed, called |-> called]

\* the element of a singleton set
Only(S) == CHOOSE x \in S : TRUE

\* one allocate_vpn call of a bulk mapping (the state before the call and
\* the outcome of the call are bound as elements of singleton sets, so that
\* each is computed once)
MapCall(st, page_table_root, vpn, ppn, flags) ==
    Only({Only({Mapping(r.memory, r.allocator, s.failed \/ r.result = None,
                        Append(s.called, [vpn |-> vpn, ppn |-> ppn,
                                          result |-> r.result])) :
                r \in {allocate_vpn(s.memory, page_table_root, vpn, Some(FromInt(ppn)),
                                    flags, s.allocator)}}) :
          s \in {st}})

\* a bulk mapping that gives up after a failed call
MapUnlessFailed(st, page_table_root, vpn, ppn, flags) ==
    IF st.failed THEN st ELSE MapCall(st, page_table_root, vpn, ppn, flags)

\* the statement `allocate_vpn(..);` of the loops: the result is not looked at
MapOne(st, page_table_root, vpn, ppn, flags) ==
    MapCall(st, page_table_root, vpn, ppn, flags)

\* a loop that leaves out the last frame of the range
RECURSIVE IdentityMapLoopExclusive(_, _, _, _, _)
IdentityMapLoopExclusive(st, page_table_root, current_ppn, end_ppn_inclusive, flags) ==
    IF current_ppn >= end_ppn_inclusive THEN st
    ELSE IdentityMapLoopExclusive(
             MapCall(st, page_table_root, current_ppn, current_ppn, flags),
             page_table_root, current_ppn + 1, end_ppn_inclusive, flags)

\* the while loop of identity_map_range
RECURSIVE IdentityMapLoop(_, _, _, _, _)
IdentityMapLoop(st, page_table_root, current_ppn, end_ppn_inclusive, flags) ==
    IF current_ppn > end_ppn_inclusive THEN st
    ELSE IdentityMapLoop(MapOne(st, page_table_root, current_ppn, current_ppn, flags),
                         page_table_root, current_ppn + 1, end_ppn_inclusive, flags)

identity_map_range(st, page_table_root, start_ppn_inclusive, end_ppn_inclusive, flags) ==
    IF start_ppn_inclusive > end_ppn_inclusive THEN st
    ELSE IdentityMapLoop(st, page_table_root, start_ppn_inclusive, end_ppn_inclusive,
                         flags)

\* the for loop of map_range from iteration i on: for _ in 0..=number_of_pages_inclusive
RECURSIVE MapRangeLoop(_, _, _, _, _, _, _)
MapRangeLoop(st, page_table_root, current_ppn, current_vpn, i, number_of_pages_inclusive, flags) ==
    IF i > number_of_pages_inclusive THEN st
    ELSE MapRangeLoop(MapOne(st, page_table_root, current_vpn, current_ppn, flags),
                      page_table_root, current_ppn + 1, current_vpn + 1, i + 1,
                      number_of_pages_inclusive, flags)

map_range(st, page_table_root, start_ppn_inclusive, start_vpn_inclusive, number_of_pages_inclusive, flags) ==
    MapRangeLoop(st, page_table_root, start_ppn_inclusive, start_vpn_inclusive, 0,
                 number_of_pages_inclusive, flags)

\* the addresses that the linker gives the boot image: the sections of the
\* boot stage, each with the address of its start and of its end
BootImage ==
    [boot_text_start   |-> 32 * PAGE_SIZE, boot_text_end   |-> 33 * PAGE_SIZE - 1,
     boot_data_start   |-> 33 * PAGE_SIZE, boot_data_end   |-> 34 * PAGE_SIZE - 1,
     boot_rodata_start |-> 34 * PAGE_SIZE, boot_rodata_end |-> 35 * PAGE_SIZE - 1,
     boot_bss_start    |-> 35 * PAGE_SIZE, boot_bss_end    |-> 36 * PAGE_SIZE - 1,
     boot_stack_start  |-> 36 * PAGE_SIZE, boot_stack_end  |-> 38 * PAGE_SIZE - 1,
     boot_end          |-> 38 * PAGE_SIZE - 1]

\* the sizes that the linker may give the kernel image
KernelSizes == {1, PAGE_SIZE, PAGE_SIZE + 1}

\* PhysicalPageNumber::from_physical_address on an address of the image
PageOf(address) == address \div PAGE_SIZE

\* identity_map_boot: .text, .data, .rodata, .bss and the stack, in this order
identity_map_boot(st, page_table_root) ==
    LET text   == identity_map_range(st, page_table_root,
                      PageOf(BootImage.boot_text_start), PageOf(BootImage.boot_text_end),
                      Flags(FALSE, FALSE, TRUE, FALSE, FALSE))
        data   == identity_map_range(text, page_table_root,
                      PageOf(BootImage.boot_data_start), PageOf(BootImage.boot_data_end),
                      Flags(TRUE, TRUE, FALSE, FALSE, FALSE))
        rodata == identity_map_range(data, page_table_root,
                      PageOf(BootImage.boot_rodata_start),
                      PageOf(BootImage.boot_rodata_end),
                      Flags(TRUE, FALSE, FALSE, FALSE, FALSE))
        bss    == identity_map_range(rodata, page_table_root,
                      PageOf(BootImage.boot_bss_start), PageOf(BootImage.boot_bss_end),
                      Flags(TRUE, TRUE, FALSE, FALSE, FALSE))
    IN  identity_map_range(bss, page_table_root,
                           PageOf(BootImage.boot_stack_start),
                           PageOf(BootImage.boot_stack_end),
                           Flags(TRUE, TRUE, FALSE, FALSE, FALSE))

\* a kernel base in the gigabyte below
KernelBaseBelow == 255 * 2^18

\* KERNEL_BASE_VIRTUAL_ADDRESS 0x0000_0040_0000_0000 as a virtual page number
KernelBaseVpn == 256 * 2^18

\* the address boot_main jumps to: 0xFFFFFFC000000000
JumpAddress == 38 .. 63

\* map_kernel_into_high_virtual_memory
map_kernel_into_high_virtual_memory(st, page_table_root, kernel_size) ==
    LET kernel_start    == BootImage.boot_end + 1
        number_of_pages == (kernel_size + PAGE_SIZE - 1) \div PAGE_SIZE
    IN  map_range(st, page_table_root, PageOf(kernel_start), KernelBaseVpn,
                  number_of_pages, Flags(TRUE, TRUE, TRUE, FALSE, FALSE))

\* (8 << 60) | root_page_table_ppn.raw_ppn()
SatpValue(root_ppn) == {63} \cup root_ppn

\* the memory maps that create_memory_map may hand to the allocator: free
\* pages behind the images, in one region or in two
FreeRegions ==
    {<<>>}
    \cup {<<MemoryRegion(64 * PAGE_SIZE, n * PAGE_SIZE)>> : n \in 1 .. MaxFreePages}
    \cup {<<MemoryRegion(64 * PAGE_SIZE, PAGE_SIZE),
            MemoryRegion(80 * PAGE_SIZE, n * PAGE_SIZE)>> : n \in 1 .. MaxFreePages - 1}

\* the steps of boot_main and setup_mmu, in program order, and the step that
\* follows a step
BootSteps ==
    <<"allocate_root", "identity_map_boot", "map_kernel_into_high_virtual_memory",
      "map_physical_memory", "csrw_satp", "sfence_vma", "jump", "kernel">>

\* a program order in which the jump comes right after the satp write
StepSkippingFence(pc) ==
    IF pc = "csrw_satp" THEN "jump"
    ELSE BootSteps[(CHOOSE i \in DOMAIN BootSteps : BootSteps[i] = pc) + 1]

StepAfter(pc) == BootSteps[(CHOOSE i \in DOMAIN BootSteps : BootSteps[i] = pc) + 1]

\* what boot_main does with the outcome of a bulk mapping: nothing, the
\* mapping functions return () and the next statement runs
HaltOnFailure(failed, next) == IF failed THEN "panic" ELSE next
OnMappingOutcome(failed, next) == next

\* boot_main has the memory map and has created the allocator on it
InitSpecBoot ==
    /\ \E free \in FreeRegions :
          LET new == [i \in 1 .. RegionCapacity |-> MemoryRegion(0, 0)]
              r   == reset(new, 0, free, Len(free))
          IN  /\ regions = free
              /\ memory_regions = r.memory_regions
              /\ region_count = r.region_count
              /\ next_allocation_address = r.next_allocation_address
    /\ current_region_index = 0
    /\ aligning = TRUE
    /\ halted = "no"
    /\ add_overlap = FALSE
    /\ add_unaligned = FALSE
    /\ carve_unaligned = FALSE
    /\ orig = MemoryRegion(0, 0)
    /\ reserved = MemoryRegion(0, 0)
    /\ returned = <<>>
    /\ resets = 1
    /\ InitMemory
    /\ InitDtb
    /\ \E kernel_size \in KernelSizes :
          boot = [NotBooted EXCEPT !.pc = "allocate_root", !.kernel_size = kernel_size]
    /\ last_op = "boot_main"

\* the state of a bulk mapping at the start of a step, and the step's effect
BootMapping == Mapping(memory, Allocator, boot.mapping_failed, <<>>)

Mapped(st, event) ==
    /\ memory' = st.memory
    /\ current_region_index' = st.allocator.index
    /\ next_allocation_address' = st.allocator.next
    /\ boot' = [boot EXCEPT !.pc = OnMappingOutcome(st.failed, StepAfter(boot.pc)),
                            !.events = Append(boot.events, event),
                            !.mapping_failed = st.failed]
    /\ last_op' = event
    /\ UNCHANGED <<mapVars, dtbVars, memory_regions, region_count, returned, resets,
                   mmu_call>>

\* allocate_page().expect(..) and root_page_table.clear(); the panic handler
\* is `loop {}`
AllocateRootPageTable ==
    /\ boot.pc = "allocate_root"
    /\ LET page == allocate_page(memory_regions, region_count, current_region_index,
                                 next_allocation_address)
       IN  /\ current_region_index' = page.index
           /\ next_allocation_address' = page.next
           /\ IF page.result = None
              THEN /\ boot' = [boot EXCEPT !.pc = "panic", !.root_failed = TRUE]
                   /\ memory' = memory
              ELSE LET root == from_physical_address(FromInt(page.result[1]))
                   IN  /\ boot' = [boot EXCEPT
                                       !.pc = StepAfter(boot.pc),
                                       !.root = Some(root),
                                       !.events = Append(boot.events, "allocate_root")]
                       /\ memory' = clear(memory, root)
    /\ last_op' = "allocate_root"
    /\ UNCHANGED <<mapVars, dtbVars, memory_regions, region_count, returned, resets,
                   mmu_call>>

IdentityMapBoot ==
    /\ boot.pc = "identity_map_boot"
    /\ \E st \in {identity_map_boot(BootMapping, boot.root[1])} :
          Mapped(st, "identity_map_boot")

MapKernelIntoHighVirtualMemory ==
    /\ boot.pc = "map_kernel_into_high_virtual_memory"
    /\ \E st \in {map_kernel_into_high_virtual_memory(BootMapping, boot.root[1],
                                                       boot.kernel_size)} :
          Mapped(st, "map_kernel_into_high_virtual_memory")

DirectMapPhysicalMemory ==
    /\ boot.pc = "map_physical_memory"
    /\ \E mem \in {map_physical_memory(memory, boot.root[1])} :
          Mapped(Mapping(mem, Allocator, boot.mapping_failed, <<>>),
                 "map_physical_memory")

\* csrw satp, {satp_value}
WriteSatp ==
    /\ boot.pc = "csrw_satp"
    /\ boot' = [boot EXCEPT !.pc = StepAfter(boot.pc),
                            !.satp = Some(SatpValue(boot.root[1])),
                            !.memory_at_satp = Some(memory),
                            !.events = Append(boot.events, "csrw_satp")]
    /\ last_op' = "csrw_satp"
    /\ UNCHANGED <<mapVars, allocVars, mmuVars, dtbVars>>

SfenceVma ==
    /\ boot.pc = "sfence_vma"
    /\ boot' = [boot EXCEPT !.pc = StepAfter(boot.pc),
                            !.events = Append(boot.events, "sfence_vma")]
    /\ last_op' = "sfence_vma"
    /\ UNCHANGED <<mapVars, allocVars, mmuVars, dtbVars>>

\* li t0, 0xFFFFFFC000000000; jr t0
JumpToKernel ==
    /\ boot.pc = "jump"
    /\ boot' = [boot EXCEPT !.pc = StepAfter(boot.pc),
                            !.entered = Some(JumpAddress),
                            !.events = Append(boot.events, "jump")]
    /\ last_op' = "jump"
    /\ UNCHANGED <<mapVars, allocVars, mmuVars, dtbVars>>

NextBoot ==
    \/ AllocateRootPageTable
    \/ IdentityMapBoot
    \/ MapKernelIntoHighVirtualMemory
    \/ DirectMapPhysicalMemory
    \/ WriteSatp
    \/ SfenceVma
    \/ JumpToKernel

\* boot_main from the allocation of the root table to the jump
SpecBoot == InitSpecBoot /\ [][NextBoot]_vars

-----------------------------------------------------------------------------
(* The boot entry point: every hart of the machine starts at                *)
(* _boot_entrypoint with its hart id in a0.  boot.harts is the position of  *)
(* each hart, boot.core_harts the harts that have stored to memory or have  *)
(* entered boot_main.                                                       *)

HartIds == 0 .. MaxHart

\* a branch that is never taken
NeverBranch(a0) == "csrci"

\* bnez a0, secondary_hart
BranchOnHartId(a0) == IF a0 # 0 THEN "secondary_hart" ELSE "csrci"

\* every hart is at the entry point; boot_main has not been called
InitSpecHarts ==
    /\ LET new  == [i \in 1 .. RegionCapacity |-> MemoryRegion(0, 0)]
           free == <<MemoryRegion(64 * PAGE_SIZE, MaxFreePages * PAGE_SIZE)>>
           r    == reset(new, 0, free, Len(free))
       IN  /\ regions = free
           /\ memory_regions = r.memory_regions
           /\ region_count = r.region_count
           /\ next_allocation_address = r.next_allocation_address
    /\ current_region_index = 0
    /\ aligning = TRUE
    /\ halted = "no"
    /\ add_overlap = FALSE
    /\ add_unaligned = FALSE
    /\ carve_unaligned = FALSE
    /\ orig = MemoryRegion(0, 0)
    /\ reserved = MemoryRegion(0, 0)
    /\ returned = <<>>
    /\ resets = 1
    /\ InitMemory
    /\ InitDtb
    /\ \E kernel_size \in KernelSizes :
          boot = [NotBooted EXCEPT !.kernel_size = kernel_size,
                                   !.harts = [h \in HartIds |-> "_boot_entrypoint"]]
    /\ last_op = "reset"

\* the effect of an instruction of hart h that touches no memory
HartMoves(h, to) ==
    /\ boot' = [boot EXCEPT !.harts[h] = to]
    /\ last_op' = boot.harts[h]
    /\ UNCHANGED <<mapVars, allocVars, mmuVars, dtbVars>>

\* bnez a0, secondary_hart
EntryBranch ==
    \E h \in HartIds :
        /\ boot.harts[h] = "_boot_entrypoint"
        /\ HartMoves(h, BranchOnHartId(h))

\* secondary_hart: wfi
SecondaryWfi ==
    \E h \in HartIds :
        /\ boot.harts[h] = "secondary_hart"
        /\ HartMoves(h, "secondary_hart_j")

\* j secondary_hart
SecondaryJump ==
    \E h \in HartIds :
        /\ boot.harts[h] = "secondary_hart_j"
        /\ HartMoves(h, "secondary_hart")

\* csrci sstatus, 2
DisableInterrupts ==
    \E h \in HartIds :
        /\ boot.harts[h] = "csrci"
        /\ HartMoves(h, "la_sp")

\* la sp, _boot_stack_end
LoadStackPointer ==
    \E h \in HartIds :
        /\ boot.harts[h] = "la_sp"
        /\ HartMoves(h, "bss_clear_loop")

\* bss_clear_loop: sd zero, (t0) over the .bss section, which holds no page table
ClearBss ==
    \E h \in HartIds :
        /\ boot.harts[h] = "bss_clear_loop"
        /\ boot' = [boot EXCEPT !.harts[h] = "jal_boot_main",
                                !.core_harts = @ \cup {h}]
        /\ last_op' = "bss_clear_loop"
        /\ UNCHANGED <<mapVars, allocVars, mmuVars, dtbVars>>

\* jal boot_main, up to the call of allocate_page for the root table
CallBootMain ==
    \E h \in HartIds :
        /\ boot.harts[h] = "jal_boot_main"
        /\ boot' = [boot EXCEPT !.harts[h] = "boot_main",
                                !.core_harts = @ \cup {h},
                                !.pc = "allocate_root"]
        /\ last_op' = "jal_boot_main"
        /\ UNCHANGED <<mapVars, allocVars, mmuVars, dtbVars>>

NextHarts ==
    \/ EntryBranch
    \/ SecondaryWfi
    \/ SecondaryJump
    \/ DisableInterrupts
    \/ LoadStackPointer
    \/ ClearBss
    \/ CallBootMain
    \/ NextBoot

\* the harts of the machine from the entry point on, in any interleaving
SpecHarts == InitSpecHarts /\ [][NextHarts]_vars

-----------------------------------------------------------------------------
(* identity_map_range and map_range called on the root table of the boot    *)
(* stage, with an allocator that has two or three pages left.  mmu_call is  *)
(* the last call: its arguments, the memory and the allocator before it,    *)
(* and the allocate_vpn calls it made.                                      *)

\* the memory maps the allocator is reset on: the root table is the first
\* page, and three or two pages are left after it
RangeRegions ==
    {BootRegions,
     <<MemoryRegion(PAGE_SIZE, 2 * PAGE_SIZE), MemoryRegion(16 * PAGE_SIZE, PAGE_SIZE)>>}

\* page numbers on both sides of the boundary between two level 0 tables
RangeBounds == {<<511, 513>>, <<511, 512>>, <<512, 511>>, <<513, 513>>}

InitSpecRange ==
    /\ \E free \in RangeRegions :
          LET new == [i \in 1 .. RegionCapacity |-> MemoryRegion(0, 0)]
              r   == reset(new, 0, free, Len(free))
              p   == allocate_page(r.memory_regions, r.region_count, 0,
                                   r.next_allocation_address)
          IN  /\ regions = free
              /\ memory_regions = r.memory_regions
              /\ region_count = r.region_count
              /\ current_region_index = p.index
              /\ next_allocation_address = p.next
              /\ returned = <<p.result>>
    /\ aligning = TRUE
    /\ halted = "no"
    /\ add_overlap = FALSE
    /\ add_unaligned = FALSE
    /\ carve_unaligned = FALSE
    /\ orig = MemoryRegion(0, 0)
    /\ reserved = MemoryRegion(0, 0)
    /\ resets = 1
    /\ memory = clear(<<>>, root_page_table)
    /\ mmu_call = NoCall
    /\ InitDtb
    /\ InitBoot
    /\ last_op = "clear"

\* the record of a bulk mapping call and its effect on the state
RangeCalled(op, start_ppn, start_vpn, last, flags, st) ==
    /\ memory' = st.memory
    /\ current_region_index' = st.allocator.index
    /\ next_allocation_address' = st.allocator.next
    /\ mmu_call' = [n |-> mmu_call.n + 1, op |-> op, vpn |-> start_vpn,
                    ppn |-> start_ppn, last |-> last, flags |-> flags,
                    result |-> st.called, failed |-> st.failed, before |-> memory,
                    after_success |-> FALSE, allocator_before |-> Some(Allocator)]
    /\ last_op' = op
    /\ UNCHANGED <<mapVars, dtbVars, boot, memory_regions, region_count, returned, resets>>

IdentityMapRange ==
    /\ mmu_call.n < MaxRangeCalls
    /\ \E bounds \in RangeBounds, flags \in FlagBundles :
          \E st \in {identity_map_range(Mapping(memory, Allocator, FALSE, <<>>),
                                        root_page_table, bounds[1], bounds[2], flags)} :
              RangeCalled("identity_map_range", bounds[1], bounds[1], bounds[2], flags, st)

MapRange ==
    /\ mmu_call.n < MaxRangeCalls
    /\ \E start_vpn \in {511, 513}, number_of_pages_inclusive \in 0 .. 1,
          flags \in FlagBundles :
          \E st \in {map_range(Mapping(memory, Allocator, FALSE, <<>>), root_page_table,
                               5, start_vpn, number_of_pages_inclusive, flags)} :
              RangeCalled("map_range", 5, start_vpn, number_of_pages_inclusive, flags, st)

NextRange == IdentityMapRange \/ MapRange

\* any sequence of identity_map_range and map_range calls on the root
SpecRange == InitSpecRange /\ [][NextRange]_vars

-----------------------------------------------------------------------------
(* PageTableEntry::set_ppn on an entry that holds any value: mmu_call is    *)
(* the entry before the call, the ppn handed in and the entry after it.     *)

\* bits of an entry: V, R, U, G, D, the lowest, a middle and the highest bit
\* of the PPN field, and two bits above the field
EntryBits == {0, 1, 4, 5, 7, 10, 38, 53, 54, 63}

\* 44-bit page numbers: zero, one, one with the highest bit, all ones
PpnValues == {{}, {0}, {27, 43}, 0 .. 43}

InitSpecEntry ==
    /\ InitMap /\ aligning = TRUE
    /\ InitAllocator /\ InitDtb /\ InitBoot
    /\ memory = <<>>
    /\ \E entry \in SUBSET EntryBits :
          mmu_call = [n |-> 0, op |-> "new", entry |-> entry, ppn |-> None,
                      before |-> entry]
    /\ last_op = "new"

\* entry.set_ppn(ppn)
SetPpn ==
    /\ mmu_call.op = "new"
    /\ \E ppn \in PpnValues :
          mmu_call' = [n |-> 1, op |-> "set_ppn", entry |-> set_ppn(mmu_call.entry, ppn),
                       ppn |-> Some(ppn), before |-> mmu_call.entry]
    /\ last_op' = "set_ppn"
    /\ UNCHANGED <<mapVars, allocVars, memory, dtbVars, boot>>

\* set_ppn called once on an entry
SpecEntry == InitSpecEntry /\ [][SetPpn]_vars

-----------------------------------------------------------------------------
(* carve_out_region applied to a map of several regions, and applied again  *)
(* with the same arguments.  orig is the sequence of regions before the     *)
(* last call and reserved is the range handed to it.                        *)

\* the reserved ranges of the calls
CarveRanges == {MemoryRegion(a, sz) : a \in Addresses, sz \in Sizes}

InitSpecCarveMap ==
    /\ aligning \in BOOLEAN
    /\ regions \in AddedMaps(RegionCapacity)
    /\ orig = regions
    /\ reserved = MemoryRegion(0, 0)
    /\ halted = "no"
    /\ add_overlap = FALSE
    /\ add_unaligned = FALSE
    /\ carve_unaligned = FALSE
    /\ InitAllocator
    /\ InitMemory
    /\ InitDtb
    /\ InitBoot
    /\ last_op = "add_region"

\* the effect of carve_out_region(x.start, x.size) on the map
CarvedBy(x, op) ==
    /\ \E result \in {carve_out_region(regions, x.start, x.size, aligning)} :
          /\ regions' = result.regions
          /\ halted' = IF result.terminated THEN halted ELSE "hang"
    /\ orig' = regions
    /\ reserved' = x
    /\ last_op' = op
    /\ UNCHANGED <<aligning, add_overlap, add_unaligned, carve_unaligned, allocVars, mmuVars, dtbVars, boot>>

CarveMap ==
    /\ last_op = "add_region"
    /\ \E x \in CarveRanges : CarvedBy(x, "carve_out_region")

\* the same call once more, immediately after the first
CarveMapAgain ==
    /\ last_op = "carve_out_region"
    /\ halted = "no"
    /\ CarvedBy(reserved, "carve_out_region_again")

NextCarveMap == CarveMap \/ CarveMapAgain

SpecCarveMap == InitSpecCarveMap /\ [][NextCarveMap]_vars

-----------------------------------------------------------------------------
(* adjust_memory_map_from_reserved_regions_in_dtb *)

\* "reserved-memory" in ASCII
ReservedMemoryName ==
    <<114, 101, 115, 101, 114, 118, 101, 100, 45, 109, 101, 109, 111, 114, 121>>

\* node.name == "reserved-memory" || node.name.starts_with("reserved-memory@")
IsReservedMemoryNode(name) ==
    \/ name = ReservedMemoryName
    \/ /\ Len(name) > Len(ReservedMemoryName)
       /\ SubSeq(name, 1, Len(ReservedMemoryName) + 1) = Append(ReservedMemoryName, 64)

\* the node callback: the flag after the callback for a node
InsideAfterNode(inside, name, depth) ==
    IF IsReservedMemoryNode(name) THEN TRUE
    ELSE IF depth = 1 /\ inside THEN FALSE
    ELSE inside

\* the closure handed to get_property_data_as_reg, for each of its calls
RECURSIVE CarveAll(_, _, _)
CarveAll(map, calls, al) ==
    IF calls = <<>> \/ map.halted # "no" THEN map
    ELSE LET reserved_start == AsUsize(Head(calls).address)
             reserved_size  == AsUsize(Head(calls).size)
             result == carve_out_region(map.regions, reserved_start, reserved_size, al)
         IN  CarveAll([regions |-> result.regions,
                       halted  |-> IF result.terminated THEN "no" ELSE "hang"],
                      Tail(calls), al)

\* the (address, size) pairs of a reg property, with the place of the
\* property callback in the walk
CarvedAt(i, calls) ==
    [k \in 1 .. Len(calls) |->
        [callback |-> i, start |-> AsUsize(calls[k].address),
         size |-> AsUsize(calls[k].size)]]

\* the two callbacks applied to the callbacks of the walk from i on
RECURSIVE AdjustLoop(_, _, _, _, _, _, _)
AdjustLoop(blob, trace, i, map, inside, carved, al) ==
    IF i > Len(trace) \/ map.halted # "no"
    THEN [map |-> map, carved |-> carved]
    ELSE IF trace[i].kind = "node"
    THEN AdjustLoop(blob, trace, i + 1, map,
                    InsideAfterNode(inside, trace[i].name, trace[i].depth), carved, al)
    ELSE IF /\ trace[i].kind = "property"
            /\ inside /\ trace[i].depth > 1
            /\ trace[i].property.name = RegName
    THEN LET r == get_property_data_as_reg(blob, trace[i].property, trace[i].cells_info)
             m == CarveAll(map, r.calls, al)
         IN  AdjustLoop(blob, trace, i + 1,
                        IF r.returns THEN m ELSE [m EXCEPT !.halted = "hang"],
                        inside, carved \o CarvedAt(i, r.calls), al)
    ELSE AdjustLoop(blob, trace, i + 1, map, inside, carved, al)

adjust_memory_map_from_reserved_regions_in_dtb(map, blob, al) ==
    AdjustLoop(blob, walk_structure_block(blob), 1, map, FALSE, <<>>, al)

\* names of nodes: "soc", "uart@1", "r@2", "sub"
SocName == <<115, 111, 99>>
UartName == <<117, 97, 114, 116, 64, 49>>
ChildName == <<114, 64, 50>>
SubName == <<115, 117, 98>>

\* a reg property of one (address, size) pair of one cell each
RegOf(pair) == Prop(NameOffset(RegName), Cell(pair[1]) \o Cell(pair[2]))

\* the properties of the root node: one cell for addresses and for sizes
RootCells ==
    <<Prop(NameOffset(AddressCellsName), Cell(1)), Prop(NameOffset(SizeCellsName), Cell(1))>>

\* the ranges of the reg properties: of the memory node, of reserved-memory
\* itself, of a node below the child of reserved-memory
MemoryPair == <<16 * PAGE_SIZE, 48 * PAGE_SIZE>>
OwnPair == <<20 * PAGE_SIZE, PAGE_SIZE>>
SubPair == <<24 * PAGE_SIZE, PAGE_SIZE>>

\* the ranges of the child of reserved-memory and of a device node
ReservedPairs ==
    {<<17 * PAGE_SIZE, PAGE_SIZE>>, <<28 * PAGE_SIZE + 1, PAGE_SIZE>>,
     <<62 * PAGE_SIZE, 4 * PAGE_SIZE>>}

\* reserved-memory with a reg property of its own, a child and a grandchild
ReservedMemoryNode(a) ==
    <<BeginNode(ReservedMemoryName), RegOf(OwnPair),
      BeginNode(ChildName), RegOf(a), BeginNode(SubName), RegOf(SubPair), EndNode,
      EndNode, EndNode>>

MemoryNode == <<BeginNode(Append(MemoryName, 64)), RegOf(MemoryPair), EndNode>>

DeviceNode(b) == <<BeginNode(UartName), RegOf(b), EndNode>>

\* well-formed trees: reserved-memory below the root before the other
\* nodes, after them, below a node of the root with a device node after it,
\* and below the root with a device node two levels down after it
ReservedTrees(a, b) ==
    {<<BeginNode(<<>>)>> \o RootCells \o ReservedMemoryNode(a) \o MemoryNode
         \o DeviceNode(b) \o <<EndNode, End>>,
     <<BeginNode(<<>>)>> \o RootCells \o MemoryNode \o DeviceNode(b)
         \o ReservedMemoryNode(a) \o <<EndNode, End>>,
     <<BeginNode(<<>>)>> \o RootCells \o MemoryNode \o <<BeginNode(SocName)>>
         \o ReservedMemoryNode(a) \o DeviceNode(b) \o <<EndNode, EndNode, End>>,
     <<BeginNode(<<>>)>> \o RootCells \o MemoryNode \o ReservedMemoryNode(a)
         \o <<BeginNode(SocName)>> \o DeviceNode(b) \o <<EndNode, EndNode, End>>}

\* kernel_main after MemoryMap::new() and populate_memory_map_from_dtb on
\* the blob the firmware handed over
InitSpecAdjust ==
    /\ aligning \in BOOLEAN
    /\ \E a \in ReservedPairs, b \in ReservedPairs :
          \E tree \in ReservedTrees(a, b) : dtb = Blob(BigEndian(FDT_MAGIC), <<>>, tree)
    /\ \E r \in {populate_memory_map_from_dtb([regions |-> <<>>, halted |-> "no"], dtb)} :
          /\ regions = r.map.regions
          /\ halted = r.map.halted
    /\ add_overlap = FALSE
    /\ add_unaligned = FALSE
    /\ carve_unaligned = FALSE
    /\ orig = MemoryRegion(0, 0)
    /\ reserved = MemoryRegion(0, 0)
    /\ InitAllocator /\ InitMemory /\ InitBoot
    /\ walk = NoWalk
    /\ last_op = "populate_memory_map_from_dtb"

\* walk.reg is the sequence of ranges handed to carve_out_region
AdjustMemoryMapFromReservedRegionsInDtb ==
    /\ last_op = "populate_memory_map_from_dtb"
    /\ \E r \in {adjust_memory_map_from_reserved_regions_in_dtb(
                      [regions |-> regions, halted |-> halted], dtb, aligning)} :
          /\ regions' = r.map.regions
          /\ halted' = r.map.halted
          /\ walk' = [walk EXCEPT !.reg = r.carved,
                                  !.trace = walk_structure_block(dtb)]
    /\ orig' = regions
    /\ last_op' = "adjust_memory_map_from_reserved_regions_in_dtb"
    /\ UNCHANGED <<aligning, add_overlap, add_unaligned, carve_unaligned, reserved,
                   allocVars, mmuVars, dtb, boot>>

\* adjust_memory_map_from_reserved_regions_in_dtb called once on the map
SpecAdjust == InitSpecAdjust /\ [][AdjustMemoryMapFromReservedRegionsInDtb]_vars

-----------------------------------------------------------------------------
(* create_memory_map and create_physical_memory_allocator of the boot       *)
(* program. MemoryMap of boot_lib is explored in both variants of            *)
(* carve_out_region.                                                          *)

\* the range of the boot image and the kernel image that follows it:
\* boot_size = boot_end - boot_start + 1; (boot_start, boot_size + kernel_size)
ImageRange(kernel_size) ==
    LET boot_start == BootImage.boot_text_start
        boot_end   == BootImage.boot_end
        boot_size  == boot_end - boot_start + 1
    IN  MemoryRegion(boot_start, boot_size + kernel_size)

\* the map returned, with the ranges carved out for reserved memory
create_memory_map(blob, kernel_size, al) ==
    LET populated == populate_memory_map_from_dtb([regions |-> <<>>, halted |-> "no"],
                                                  blob).map
        adjusted  == adjust_memory_map_from_reserved_regions_in_dtb(populated, blob, al)
        image     == ImageRange(kernel_size)
        result    == carve_out_region(adjusted.map.regions, image.start, image.size, al)
    IN  IF adjusted.map.halted # "no" THEN adjusted
        ELSE [map    |-> [regions |-> result.regions,
                          halted  |-> IF result.terminated THEN "no" ELSE "hang"],
              carved |-> adjusted.carved]

\* the ranges of the memory node: around the images, and starting below them
MemoryPairs == {MemoryPair, <<30 * PAGE_SIZE, 12 * PAGE_SIZE>>}

\* the ranges of the child of reserved-memory: below the images, above
\* them, reaching over the end of the memory
ImageReservedPairs ==
    {<<31 * PAGE_SIZE, PAGE_SIZE>>, <<40 * PAGE_SIZE + 1, PAGE_SIZE>>,
     <<41 * PAGE_SIZE, 23 * PAGE_SIZE>>}

\* a memory node and a reserved-memory node below the root
ImageTree(m, a) ==
    <<BeginNode(<<>>)>> \o RootCells
        \o <<BeginNode(Append(MemoryName, 64)), RegOf(m), EndNode>>
        \o ReservedMemoryNode(a) \o <<EndNode, End>>

\* boot_main with the blob of the firmware, before create_memory_map
InitSpecCreate ==
    /\ aligning \in BOOLEAN
    /\ \E m \in MemoryPairs, a \in ImageReservedPairs :
          dtb = Blob(BigEndian(FDT_MAGIC), <<>>, ImageTree(m, a))
    /\ regions = <<>>
    /\ halted = "no"
    /\ add_overlap = FALSE
    /\ add_unaligned = FALSE
    /\ carve_unaligned = FALSE
    /\ orig = MemoryRegion(0, 0)
    /\ reserved = MemoryRegion(0, 0)
    /\ InitAllocator /\ InitMemory
    /\ walk = NoWalk
    /\ \E kernel_size \in KernelSizes : boot = [NotBooted EXCEPT !.kernel_size = kernel_size]
    /\ last_op = "new"

\* walk.reg is the sequence of ranges carved out for reserved memory,
\* reserved is the range of the images
CreateMemoryMap ==
    /\ last_op = "new"
    /\ \E r \in {create_memory_map(dtb, boot.kernel_size, aligning)} :
          /\ regions' = r.map.regions
          /\ halted' = r.map.halted
          /\ walk' = [walk EXCEPT !.reg = r.carved]
    /\ reserved' = ImageRange(boot.kernel_size)
    /\ last_op' = "create_memory_map"
    /\ UNCHANGED <<aligning, add_overlap, add_unaligned, carve_unaligned, orig,
                   allocVars, mmuVars, dtb, boot>>

\* PhysicalBumpAllocator::new() and reset on the regions of the map
CreatePhysicalMemoryAllocator ==
    /\ last_op = "create_memory_map"
    /\ halted = "no"
    /\ Reset

\* allocate_page on the allocator that create_physical_memory_allocator returned
AllocatePageOfMap ==
    /\ resets = 1
    /\ AllocatePage

NextCreate == CreateMemoryMap \/ CreatePhysicalMemoryAllocator \/ AllocatePageOfMap
SpecCreate == InitSpecCreate /\ [][NextCreate]_vars

-----------------------------------------------------------------------------
(* Claims about the memory map *)

\* the range carve_out_region removes: the reserved range itself, or the
\* range between the page boundaries around it
EffectiveReserved ==
    IF aligning
    THEN MemoryRegion(AlignDown(reserved.start),
                      AlignUp(reserved.start + reserved.size) - AlignDown(reserved.start))
    ELSE reserved

RECURSIVE SumSizes(_)
SumSizes(regs) == IF regs = <<>> THEN 0 ELSE Head(regs).size + SumSizes(Tail(regs))

Max(a, b) == IF a >= b THEN a ELSE b
Min(a, b) == IF a <= b THEN a ELSE b

\* number of bytes two ranges share
Overlap(r1, r2) ==
    Max(0, Min(r1.start + r1.size, r2.start + r2.size) - Max(r1.start, r2.start))

InMap(regs, a) == \E i \in 1 .. Len(regs) : Covers(regs[i], a)

\* Starts and exclusive ends of all ranges involved.  Two finite unions of
\* half-open integer ranges are equal iff they agree at every start and every
\* exclusive end of their ranges: at the least address where they differ, the
\* membership in one of them differs from that of the address below, so that
\* address is a start or an exclusive end.
Endpoints(regs) ==
    UNION {{r.start, r.start + r.size} :
              r \in {regs[i] : i \in 1 .. Len(regs)} \cup {orig, EffectiveReserved}}

PairwiseDisjoint(regs) ==
    \A i, j \in 1 .. Len(regs) : i # j => ~Intersect(regs[i], regs[j])

AllPageAligned(regs) == \A i \in 1 .. Len(regs) : PageAligned(regs[i])

\* C1: carving a reserved range X of positive size out of a map holding the
\* single region R leaves exactly the addresses of R outside X (X widened to
\* page boundaries in the aligning variant), and the sizes of the resulting
\* regions plus the size of the part of R inside X add up to the size of R.
C1_CarveIsSetSubtraction ==
    (last_op = "carve_out_region" /\ reserved.size > 0) =>
        /\ halted = "no"
        /\ \A a \in Endpoints(regions) :
              InMap(regions, a) <=> (Covers(orig, a) /\ ~Covers(EffectiveReserved, a))
        /\ SumSizes(regions) + Overlap(orig, EffectiveReserved) = orig.size

\* a reserved range starting off a page boundary split the region in two
C1_Witness ==
    /\ last_op = "carve_out_region"
    /\ Len(regions) = 2
    /\ reserved.start % PAGE_SIZE # 0
    /\ aligning

\* C2 as stated: after any sequence of add_region and carve_out_region calls
\* any two distinct stored regions are disjoint.
C2_DisjointAfterAnyCalls == PairwiseDisjoint(regions)

\* C2 as amended: the stored regions are pairwise disjoint as long as no
\* add_region call stored a range intersecting a region already in the map.
C2_DisjointUnlessAddedOverlapping == ~add_overlap => PairwiseDisjoint(regions)

\* a carve-out split a region of a map of disjoint regions
C2_Witness ==
    /\ ~add_overlap
    /\ last_op = "carve_out_region"
    /\ Len(regions) = 3
    /\ \A i \in 1 .. 3 : regions[i].size > 0

\* C3 as stated: after any sequence of operations with arbitrary arguments
\* every stored region starts on a page boundary and is a positive number of
\* whole pages long.
C3_AlignedAfterAnyCalls == AllPageAligned(regions)

\* C3 as amended: every stored region is page-aligned and at least a page long
\* when every add_region call stored such a region and the carve-outs are
\* those of the aligning variant (arbitrary ranges) or, in the exact variant,
\* carve-outs of page-aligned ranges.
C3_AlignedWhenAddsAligned ==
    (~add_unaligned /\ (aligning \/ ~carve_unaligned)) => AllPageAligned(regions)

\* the aligning variant carved an unaligned range and split a region
C3_Witness ==
    /\ aligning /\ ~add_unaligned /\ carve_unaligned
    /\ last_op = "carve_out_region"
    /\ Len(regions) >= 2

-----------------------------------------------------------------------------
(* Claims about the allocator *)

\* PhysicalBumpAllocator::total_memory_size
RECURSIVE total_memory_size(_, _)
total_memory_size(mr, count) ==
    IF count = 0 THEN 0 ELSE mr[count].size + total_memory_size(mr, count - 1)

\* the addresses returned by the successful calls, in call order
Successes ==
    LET some == SelectSeq(returned, LAMBDA r : r # None)
    IN  [i \in 1 .. Len(some) |-> some[i][1]]

StrictlyIncreasing(seq) == \A i, j \in 1 .. Len(seq) : i < j => seq[i] < seq[j]

\* the page at address a lies inside one snapshotted region
PageInSnapshot(a) ==
    \E k \in 1 .. region_count :
        /\ memory_regions[k].start <= a
        /\ a + PAGE_SIZE <= memory_regions[k].start + memory_regions[k].size

\* the snapshot lists its regions by ascending address, none reaching into the next
AscendingSnapshot ==
    \A i, j \in 1 .. region_count :
        i < j => memory_regions[i].start + memory_regions[i].size <= memory_regions[j].start

StartsAligned == \A k \in 1 .. region_count : memory_regions[k].start % PAGE_SIZE = 0

\* C4 as stated: after a reset on a snapshot of the memory map the successful
\* allocate_page calls return strictly increasing, page-aligned addresses of
\* pages that lie inside a snapshotted region.
C4_IncreasingAlignedContained ==
    /\ StrictlyIncreasing(Successes)
    /\ \A i \in 1 .. Len(Successes) :
          Successes[i] % PAGE_SIZE = 0 /\ PageInSnapshot(Successes[i])

\* C4 as amended: every returned page lies inside a snapshotted region; the
\* addresses are strictly increasing when the snapshot lists its regions in
\* ascending address order without overlap, and page-aligned when every
\* snapshotted region starts on a page boundary.
C4_ContainedAndIncreasingWhenAscending ==
    /\ \A i \in 1 .. Len(Successes) : PageInSnapshot(Successes[i])
    /\ AscendingSnapshot => StrictlyIncreasing(Successes)
    /\ StartsAligned => \A i \in 1 .. Len(Successes) : Successes[i] % PAGE_SIZE = 0

\* three pages were handed out of an ascending, aligned snapshot, the second
\* from a later region than the first
C4_Witness ==
    /\ resets = 1 /\ region_count >= 2
    /\ AscendingSnapshot /\ StartsAligned
    /\ Len(Successes) >= 3
    /\ Successes[2] - Successes[1] > PAGE_SIZE

ScenarioD == <<MemoryRegion(4096, 4096), MemoryRegion(65536, 8192)>>

\* C5: the successful allocate_page calls never outnumber the whole pages of
\* total_memory_size; once a call returned none every later call returns
\* none; the regions of Scenario D yield 0x1000, 0x10000, 0x11000, then none.
C5_ExhaustionIsFinal ==
    /\ Len(Successes) <= total_memory_size(memory_regions, region_count) \div 4096
    /\ \A i, j \in 1 .. Len(returned) :
          (i < j /\ returned[i] = None) => returned[j] = None
    /\ (resets = 1 /\ regions = ScenarioD) =>
          \A i \in 1 .. Len(returned) :
              returned[i] = IF i <= 3 THEN Some(<<4096, 65536, 69632>>[i]) ELSE None

\* Scenario D: three pages, then two calls that return none
C5_Witness ==
    /\ resets = 1 /\ regions = ScenarioD
    /\ returned = <<Some(4096), Some(65536), Some(69632), None, None>>

\* the results of n allocate_page calls on an allocator that was constructed
\* and reset once with the regions mr[1 .. count]
RECURSIVE RunFrom(_, _, _, _, _)
RunFrom(mr, count, idx, next, n) ==
    IF n = 0 THEN <<>>
    ELSE LET r == allocate_page(mr, count, idx, next)
         IN  <<r.result>> \o RunFrom(mr, count, r.index, r.next, n - 1)

FreshRun(mr, count, n) ==
    RunFrom(mr, count, 0, IF count > 0 THEN mr[1].start ELSE 0, n)

\* C6: reset on an allocator in any state sets the current region index to
\* 0 and the next allocation address to the start of the first region, and
\* the allocate_page calls after it return what they return on an allocator
\* that was constructed and reset with the same regions; with no region
\* every call returns none.
C6_ResetForgetsPriorState ==
    /\ last_op = "reset" =>
          /\ current_region_index = 0
          /\ region_count > 0 => next_allocation_address = memory_regions[1].start
    /\ resets >= 1 => returned = FreshRun(memory_regions, region_count, Len(returned))
    /\ (resets >= 1 /\ region_count = 0) => \A i \in 1 .. Len(returned) : returned[i] = None

LastRegionEnd ==
    memory_regions[region_count].start + memory_regions[region_count].size

WithinCurrentRegion ==
    LET region == memory_regions[current_region_index + 1]
    IN  /\ region.start <= next_allocation_address
        /\ next_allocation_address <= region.start + region.size

\* C7 as stated: after reset and any number of allocate_page calls the next
\* allocation address is within the current region or, once the allocator is
\* exhausted, equal to the exclusive end of the last region.
C7_NextWithinRegionOrAtEnd ==
    resets = 1 =>
        IF current_region_index < region_count
        THEN WithinCurrentRegion
        ELSE /\ current_region_index = region_count
             /\ region_count > 0 => next_allocation_address = LastRegionEnd

\* C7 as amended: ... or, once the allocator is exhausted, less than a page
\* below or at the exclusive end of the last region, and at that end when the
\* size of the last region is a multiple of the page size.
C7_NextWithinRegionOrInLastPage ==
    resets = 1 =>
        IF current_region_index < region_count
        THEN WithinCurrentRegion
        ELSE /\ current_region_index = region_count
             /\ region_count > 0 =>
                   /\ LastRegionEnd - PAGE_SIZE < next_allocation_address
                   /\ next_allocation_address <= LastRegionEnd
                   /\ memory_regions[region_count].size % PAGE_SIZE = 0
                         => next_allocation_address = LastRegionEnd

\* the allocator ran out inside a last region that ends with a partial page
C7_Witness ==
    /\ resets = 1 /\ region_count >= 1
    /\ current_region_index = region_count
    /\ Len(Successes) >= 1
    /\ next_allocation_address < LastRegionEnd

-----------------------------------------------------------------------------
(* Claims about the page tables *)

\* (vpn << 12) | off
VirtualAddress(vpn, off) == Shl(FromInt(vpn), 12) \cup FromInt(off)

\* the addresses of the pages and offsets the claims are about
AddressOf == [vpn \in AllVpns |-> [off \in Offsets |-> VirtualAddress(vpn, off)]]

\* the entries that the walk for the addresses of a virtual page selects
Level2Entry(vpn) == get_entry(memory, root_page_table, get_level_2_index(vpn))
Level1Entry(vpn) == get_entry(memory, get_ppn(Level2Entry(vpn)), get_level_1_index(vpn))
Level0Entry(vpn) == get_entry(memory, get_ppn(Level1Entry(vpn)), get_level_0_index(vpn))

\* the walk for the addresses of a virtual page meets an entry with V = 0
WalkMeetsInvalid(vpn) ==
    LET level_2 == Level2Entry(vpn)
        level_1 == Level1Entry(vpn)
    IN  \/ ~is_valid(level_2)
        \/ ~is_valid(level_1)
        \/ ~is_valid(Level0Entry(vpn))

Translates(vpn) ==
    translate_virtual_address(memory, root_page_table, AddressOf[vpn][0]) # None

\* C8: after allocate_vpn(root, vpn, Some(ppn), flags, alloc) returned Some
\* on a root built by the mapping operations, translate_virtual_address(root,
\* (vpn << 12) | off) is Some((ppn << 12) | off) for every page offset off.
C8_TranslateAfterAllocateVpn ==
    (mmu_call.op = "allocate_vpn" /\ mmu_call.ppn # None /\ mmu_call.result # None) =>
        \A off \in Offsets :
            translate_virtual_address(memory, root_page_table,
                                      AddressOf[mmu_call.vpn][off])
                = Some(to_physical_address(mmu_call.ppn[1]) \cup FromInt(off))

\* C9: translate_virtual_address returns none whenever the entry selected at
\* level 2, at level 1 or at level 0 of the walk for the address has V = 0.
C9_InvalidEntryYieldsNone ==
    \A vpn \in AllVpns :
        WalkMeetsInvalid(vpn) =>
            \A off \in Offsets :
                translate_virtual_address(memory, root_page_table,
                                          AddressOf[vpn][off]) = None

\* the walk of one page stops at level 2, that of another at level 1, that
\* of a third at level 0, and the addresses of a fourth page translate
C9_Witness ==
    /\ \E vpn \in AllVpns : ~is_valid(Level2Entry(vpn))
    /\ \E vpn \in AllVpns : is_valid(Level2Entry(vpn)) /\ ~is_valid(Level1Entry(vpn))
    /\ \E vpn \in AllVpns :
          /\ is_valid(Level2Entry(vpn)) /\ is_valid(Level1Entry(vpn))
          /\ ~is_valid(Level0Entry(vpn))
          /\ ~Translates(vpn)
    /\ \E vpn \in AllVpns : Translates(vpn)

\* the root entry that the last allocate_level_2_vpn call was about
CalledEntry(mem) == get_entry(mem, root_page_table, get_level_2_index(mmu_call.vpn))

\* C10: allocate_level_2_vpn returns false and leaves the root table
\* unchanged whenever the root entry at the vpn's level-2 index is already
\* valid, leaf or pointer; a call that follows a successful call for the same
\* index returns false, whatever its ppn, and leaves the entry as it was.
C10_ValidRootEntryIsKept ==
    mmu_call.op = "allocate_level_2_vpn" =>
        /\ is_valid(CalledEntry(mmu_call.before)) =>
              /\ mmu_call.result = FALSE
              /\ memory = mmu_call.before
        /\ mmu_call.after_success =>
              /\ mmu_call.result = FALSE
              /\ CalledEntry(memory) = CalledEntry(mmu_call.before)

\* a second call for an index, asking for another page than the one the
\* first call installed, was refused
C10_Witness ==
    /\ mmu_call.op = "allocate_level_2_vpn"
    /\ mmu_call.after_success
    /\ mmu_call.result = FALSE
    /\ get_ppn(CalledEntry(memory)) # mmu_call.ppn[1]


\* the virtual address (384 + i) * 2^30 of a gigabyte of the direct map
DirectMapAddress(i) == Shl(FromInt(512 - GIGABYTES_TO_MAP + i), 30)

\* the physical address i * 2^30
GigabyteAddress(i) == Shl(FromInt(i), 30)

\* C11: after map_physical_memory was applied to an empty root table,
\* translate_virtual_address(root, (384 + i) * 2^30) is Some(i * 2^30) for
\* every i in 0 .. 127.
C11_DirectMapTranslates ==
    last_op = "map_physical_memory" =>
        \A i \in 0 .. GIGABYTES_TO_MAP - 1 :
            translate_virtual_address(memory, root_page_table, DirectMapAddress(i))
                = Some(GigabyteAddress(i))

\* the level 0 entry that the walk of allocate_vpn for a virtual page
\* selects in a memory
WalkedEntry(mem, vpn) ==
    LET level_2 == get_entry(mem, root_page_table, get_level_2_index(vpn))
        level_1 == get_entry(mem, get_ppn(level_2), get_level_1_index(vpn))
    IN  get_entry(mem, get_ppn(level_1), get_level_0_index(vpn))

\* C12: an allocate_vpn call for a vpn that the allocate_vpn call before it
\* mapped, with any flag bundle, returns the PPN that the first call
\* installed, whatever its own ppn and flags, leaves every page-table entry
\* unchanged and allocates no page.
C12_AllocateVpnIsIdempotent ==
    (mmu_call.op = "allocate_vpn" /\ mmu_call.after_success) =>
        /\ mmu_call.result = Some(get_ppn(WalkedEntry(mmu_call.before, mmu_call.vpn)))
        /\ memory = mmu_call.before
        /\ Some(Allocator) = mmu_call.allocator_before


-----------------------------------------------------------------------------
(* Claims about the device tree walkers *)

\* the entries of the reservation block as the visitor is said to receive
\* them, and as the block holds them
NativeEntries == [i \in 1 .. Len(dtb.pairs) |->
                     [address |-> dtb.pairs[i][1], size |-> dtb.pairs[i][2]]]

\* C13: for a reservation block holding the big-endian entries (A1, S1) ..
\* (An, Sn) and the zero terminator, walk_memory_reservation_entries invokes
\* the visitor exactly n times, in block order, the i-th call with (Ai, Si)
\* as native-endian 64-bit values, and stops at the terminator.
C13_VisitorReceivesNativeEntries ==
    walk.reservations = "done" => walk.visited = NativeEntries

\* the structure that the items of a block describe.  OpenNodes(items, k) is
\* the stack of the nodes open after the first k items, each node given by
\* the position of its BEGIN_NODE item, the innermost last.
RECURSIVE OpenNodes(_, _)
OpenNodes(items, k) ==
    IF k = 0 THEN <<>>
    ELSE LET open == OpenNodes(items, k - 1)
         IN  IF items[k].kind = "begin_node" THEN Append(open, k)
             ELSE IF items[k].kind = "end_node" /\ open # <<>>
             THEN SubSeq(open, 1, Len(open) - 1)
             ELSE open

\* the node that the item at position k lies in (0 at top level), and the
\* depth of the node that begins at position k
Owner(items, k) ==
    LET open == OpenNodes(items, k - 1)
    IN  IF open = <<>> THEN 0 ELSE open[Len(open)]

DepthOf(items, k) == Len(OpenNodes(items, k - 1))

\* the address of the token of the item at position k, and the position of
\* the item whose token is at an address
ItemAddress(items, k) == Len(BlockBytes(SubSeq(items, 1, k - 1)))

ItemAt(items, address) == CHOOSE k \in DOMAIN items : ItemAddress(items, k) = address

\* A well-formed block: nodes are properly nested and all closed, every
\* property lies in a node and before the child nodes of that node, NOP
\* tokens lie anywhere, and the only END token is the last token.
WellFormed(items) ==
    /\ items # <<>>
    /\ items[Len(items)].kind = "end"
    /\ \A k \in 1 .. Len(items) - 1 : items[k].kind \notin {"end", "other"}
    /\ OpenNodes(items, Len(items)) = <<>>
    /\ \A k \in DOMAIN items :
          /\ items[k].kind = "end_node" => Owner(items, k) # 0
          /\ items[k].kind = "prop" =>
                /\ Owner(items, k) # 0
                /\ \A j \in 1 .. k - 1 :
                      items[j].kind = "begin_node" => Owner(items, j) # Owner(items, k)

\* the positions of the properties of the node at position o that have a name
PropertiesOf(items, o, name) ==
    {k \in DOMAIN items : /\ items[k].kind = "prop"
                          /\ Owner(items, k) = o
                          /\ items[k].nameoff = NameOffset(name)}

\* the u32 that the data of the property at position k holds
DeclaredValue(items, k) == from_be(SubSeq(items[k].data, 1, 4))

\* the callbacks of the walk
PropertyCallbacks == {i \in DOMAIN walk.trace : walk.trace[i].kind = "property"}
NodeCallbacks == {i \in DOMAIN walk.trace : walk.trace[i].kind = "node"}

\* the position of the item that the property callback at place i of the
\* trace is for: the PROP token lies 12 bytes before the property's data
PropertyItem(i) == ItemAt(dtb.items, walk.trace[i].property.data_address - 12)

\* C14: for a well-formed structure block, in which NOP tokens may lie
\* between any two tokens, and every node that declares #address-cells = N
\* and #size-cells = M, every property callback for a property of that node
\* receives cell_info with address_cells = N and size_cells = M, wherever
\* the two properties sit among the node's properties.
C14_PropertiesReceiveDeclaredCells ==
    (walk.structure = "done" /\ WellFormed(dtb.items)) =>
        \A i \in PropertyCallbacks :
            LET o == Owner(dtb.items, PropertyItem(i))
            IN  \A a \in PropertiesOf(dtb.items, o, AddressCellsName),
                   s \in PropertiesOf(dtb.items, o, SizeCellsName) :
                    walk.trace[i].cells_info =
                        [address_cells |-> DeclaredValue(dtb.items, a),
                         size_cells    |-> DeclaredValue(dtb.items, s)]

\* the places of the trace, in order, that satisfy a test
RECURSIVE Places(_, _)
Places(Test(_), n) ==
    IF n = 0 THEN <<>>
    ELSE IF Test(n) THEN Append(Places(Test, n - 1), n) ELSE Places(Test, n - 1)

IsNodeCallback(i) == walk.trace[i].kind = "node"

IsBeginNode(k) == dtb.items[k].kind = "begin_node"

\* the END_NODE tokens that parse_node consumed
EndNodesConsumed ==
    {i \in DOMAIN walk.trace : /\ walk.trace[i].kind = "token"
                               /\ walk.trace[i].loop = "parse_node"
                               /\ walk.trace[i].token = FDT_END_NODE}

\* C15: for a well-formed structure block, walk_structure_block fires the
\* node callback exactly once per BEGIN_NODE, in block order; the number of
\* node callbacks equals the number of END_NODE tokens consumed; the depth
\* of a node callback is 0 for a top-level node and the parent's depth + 1
\* for a child; a property callback carries the depth of the node that owns
\* the property; and the walk ends with the top-level loop reading END, at
\* nesting depth 0.
C15_CallbacksFollowNesting ==
    (walk.structure = "done" /\ WellFormed(dtb.items)) =>
        LET calls  == Places(IsNodeCallback, Len(walk.trace))
            begins == Places(IsBeginNode, Len(dtb.items))
            last   == walk.trace[Len(walk.trace)]
        IN  /\ Len(calls) = Len(begins)
            /\ \A n \in DOMAIN calls :
                  /\ walk.trace[calls[n]].address = ItemAddress(dtb.items, begins[n]) + 4
                  /\ walk.trace[calls[n]].name = dtb.items[begins[n]].name
                  /\ walk.trace[calls[n]].depth = DepthOf(dtb.items, begins[n])
            /\ Cardinality(NodeCallbacks) = Cardinality(EndNodesConsumed)
            /\ \A i \in PropertyCallbacks :
                  walk.trace[i].depth
                      = DepthOf(dtb.items, Owner(dtb.items, PropertyItem(i)))
            /\ last.kind = "token" /\ last.loop = "walk_structure_block"
            /\ last.token = FDT_END
            /\ last.address = ItemAddress(dtb.items, Len(dtb.items))

\* a well-formed block with a node inside a node was walked, and a property
\* of the inner node was reported at depth 1
C15_Witness ==
    /\ walk.structure = "done"
    /\ WellFormed(dtb.items)
    /\ \E i \in NodeCallbacks : walk.trace[i].depth = 1
    /\ \E i \in PropertyCallbacks : walk.trace[i].depth = 1
    /\ Cardinality(EndNodesConsumed) = 2

\* the walker read, at place i of the trace, an END token or a token that
\* it does not expect where it stands: the top-level loop anything but
\* BEGIN_NODE and NOP, the loop of parse_node anything but PROP, BEGIN_NODE,
\* END_NODE and NOP
ReadsEndOrUnexpected(i) ==
    LET e == walk.trace[i]
    IN  /\ e.kind = "token"
        /\ \/ e.loop = "walk_structure_block"
              /\ e.token \notin {FDT_BEGIN_NODE, FDT_NOP}
           \/ e.loop = "parse_node"
              /\ e.token \notin {FDT_PROP, FDT_BEGIN_NODE, FDT_END_NODE, FDT_NOP}

\* C16: once the walker reads an END token or an unexpected token, at any
\* nesting depth, the whole walk halts: no further token is read and no
\* further node or property callback is invoked.
C16_WalkHaltsAtEndOrUnexpected ==
    walk.structure = "done" =>
        \A i \in DOMAIN walk.trace : ReadsEndOrUnexpected(i) => i = Len(walk.trace)

\* C17: when the magic field of the header is not 0xd00dfeed,
\* walk_memory_reservation_entries and walk_structure_block halt without
\* invoking any callback (so that nothing is added to the memory map).
C17_BadMagicStopsTheWalkers ==
    from_be(dtb.magic_be) # FDT_MAGIC =>
        /\ walk.reservations = "done" => walk.visited = <<>>
        /\ walk.structure = "done" => NodeCallbacks \cup PropertyCallbacks = {}

-----------------------------------------------------------------------------
(* Claims about a full memory map *)

\* C20: when the MemoryMap already holds as many regions as it has slots
\* (128 in the source), add_region(start, size) leaves the regions and the
\* count unchanged, the extra region being silently dropped, and surfaces no
\* error or panic.
C20_AddRegionOnFullMapIsDropped ==
    [][(halted = "no" /\ current_size = RegionCapacity /\ last_op' = "add_region") =>
           (regions' = regions /\ halted' = "no")]_vars

(* Claims about the boot sequence *)

\* the events of a boot run that reaches the kernel, in order
BootOrder ==
    <<"allocate_root", "identity_map_boot", "map_kernel_into_high_virtual_memory",
      "map_physical_memory", "csrw_satp", "sfence_vma", "jump">>

C19_AnyFailedAllocationHalts ==
    (boot.root_failed \/ boot.mapping_failed) =>
        /\ boot.satp = None
        /\ boot.pc # "kernel"

\* C19: a root table allocation that returns none halts the boot stage
\* before satp is written and before the jump, and nothing else halts it:
\* a none inside identity_map_range or map_range is ignored and the run
\* goes on to the satp write and the jump
C19_OnlyRootFailureHalts ==
    /\ boot.root_failed =>
          /\ boot.pc = "panic"
          /\ boot.satp = None
          /\ boot.events = <<>>
    /\ boot.pc = "panic" => boot.root_failed
    /\ boot.mapping_failed => boot.pc # "panic"

C19_Witness ==
    /\ boot.mapping_failed
    /\ boot.satp # None
    /\ boot.pc = "kernel"

(* Claims about installed leaf entries *)

\* the entry has V = 1, R, W, X, U, G as the flag bundle says, A = D = 0 and
\* the PPN field (bits 10 .. 53) equal to ppn
LeafAsAsked(entry, flags, ppn) ==
    /\ FLAG_VALID \subseteq entry
    /\ (FLAG_READ \subseteq entry) = flags.readable
    /\ (FLAG_WRITE \subseteq entry) = flags.writable
    /\ (FLAG_EXECUTE \subseteq entry) = flags.executable
    /\ (FLAG_USER \subseteq entry) = flags.user
    /\ (FLAG_GLOBAL \subseteq entry) = flags.global
    /\ ~(FLAG_ACCESSED \subseteq entry)
    /\ ~(FLAG_DIRTY \subseteq entry)
    /\ entry \cap (10 .. 53) = Shl(ppn, 10)

\* the last call was an allocate_vpn that wrote page tables and returned a
\* page number: it installed the level 0 entry of its vpn
InstalledByAllocateVpn ==
    /\ mmu_call.op = "allocate_vpn"
    /\ mmu_call.result # None
    /\ memory # mmu_call.before

\* the last call was an allocate_level_2_vpn that installed a gigapage
InstalledByAllocateLevel2Vpn ==
    /\ mmu_call.op = "allocate_level_2_vpn"
    /\ mmu_call.result = TRUE

\* C21: a leaf installed by allocate_vpn or allocate_level_2_vpn with flag
\* bundle f and page number p has V = 1, R, W, X, U, G equal to the fields of
\* f, A = D = 0 and PPN field p (the bundle R+W+G is the direct map's).
C21_InstalledLeafCarriesFlags ==
    /\ InstalledByAllocateVpn =>
          LeafAsAsked(WalkedEntry(memory, mmu_call.vpn), mmu_call.flags,
                      mmu_call.result[1])
    /\ InstalledByAllocateLevel2Vpn =>
          LeafAsAsked(get_entry(memory, root_page_table,
                                get_level_2_index(mmu_call.vpn)),
                      mmu_call.flags, mmu_call.ppn[1])

(* Claims about the harts *)

\* where a parked hart can be
ParkedPositions == {"_boot_entrypoint", "secondary_hart", "secondary_hart_j"}

\* the memory map, the allocator and the page tables as boot_main finds them
CoreUntouched ==
    /\ boot.pc = "none"
    /\ memory = <<>>
    /\ current_region_index = 0
    /\ next_allocation_address = regions[1].start

\* C22: with all harts entering _boot_entrypoint concurrently, only hart 0
\* reaches boot_main and touches core state; a hart with another id is at the
\* entry point or in the wfi loop in every state of every interleaving, and
\* core state changes only while hart 0 is in boot_main
C22_OnlyHartZeroBoots ==
    /\ boot.core_harts \subseteq {0}
    /\ \A h \in HartIds \ {0} : boot.harts[h] \in ParkedPositions
    /\ boot.harts[0] # "boot_main" => CoreUntouched

C22_Witness ==
    /\ boot.pc = "kernel"
    /\ boot.harts[0] = "boot_main"
    /\ boot.core_harts = {0}
    /\ \A h \in HartIds \ {0} : boot.harts[h] = "secondary_hart_j"

(* Claims about reg properties *)

\* the bytes of the data of the reg property, as the blob was made
RegData == dtb.items[2].data

\* the u64 that n big-endian cells starting at byte offset from of the data
\* stand for: the last eight bytes of the cells, most significant first
CellsValue(from, n) ==
    LET bytes == [i \in 1 .. 8 |-> 0] \o SubSeq(RegData, from + 1, from + 4 * n)
    IN  Reverse(SubSeq(bytes, Len(bytes) - 7, Len(bytes)))

\* C27: get_property_data_as_reg with cell info (a, s) on data of length L
\* returns after floor(L / (4 (a + s))) callbacks, the k-th with the address
\* made of the a big-endian cells of entry k and the size made of the s
\* cells that follow, and reads no byte at or beyond offset L of the data
C27_RegCallbacksDecodeEntries ==
    walk.reg # <<>> =>
        LET r == walk.reg[1]
            a == U32(r.cells_info.address_cells)
            s == U32(r.cells_info.size_cells)
            L == r.property.data_length
            n == Len(r.calls)
        IN  /\ r.returns
            /\ n * 4 * (a + s) <= L
            /\ L < (n + 1) * 4 * (a + s)
            /\ \A k \in 1 .. n :
                  /\ r.calls[k].address = CellsValue((k - 1) * 4 * (a + s), a)
                  /\ r.calls[k].size = CellsValue((k - 1) * 4 * (a + s) + 4 * a, s)
            /\ \A address \in r.reads :
                  /\ address >= r.property.data_address
                  /\ address < r.property.data_address + L

(* Claims about the population of the memory map *)

\* the aligned region inside [address, address + size): its start is the
\* least multiple of 4 KiB that is not below address, its size the greatest
\* multiple of 4 KiB that fits; no region when less than a page fits
AlignedInside(address, size) ==
    LET start == ((address + PAGE_SIZE - 1) \div PAGE_SIZE) * PAGE_SIZE
    IN  IF start + PAGE_SIZE <= address + size
        THEN <<MemoryRegion(start, ((address + size - start) \div PAGE_SIZE) * PAGE_SIZE)>>
        ELSE <<>>

RECURSIVE AlignedInsideAll(_)
AlignedInsideAll(pairs) ==
    IF pairs = <<>> THEN <<>>
    ELSE AlignedInside(AsUsize(Head(pairs).address), AsUsize(Head(pairs).size))
         \o AlignedInsideAll(Tail(pairs))

\* C23: for every (address, size) pair decoded from the reg property of a
\* memory node, populate_memory_map_from_dtb adds the region that starts at
\* address rounded up to 4 KiB, has a size that is a multiple of 4 KiB and
\* lies inside [address, address + size), and adds nothing when less than
\* 4 KiB remains.
C23_PopulateAddsAlignedRegions ==
    last_op = "populate_memory_map_from_dtb" =>
        /\ halted = "no"
        /\ regions = AlignedInsideAll(walk.reg)

(* Claims about the mappings of the boot stage *)

\* the entry that the three-level walk from a root reaches for the indices
\* i2, i1, i0, and the entries it passes
WalkEntries(mem, root, i2, i1, i0) ==
    LET level_2 == get_entry(mem, root, i2)
        level_1 == get_entry(mem, get_ppn(level_2), i1)
    IN  <<level_2, level_1, get_entry(mem, get_ppn(level_1), i0)>>

EntryOfVpn(mem, root, vpn) ==
    WalkEntries(mem, root, get_level_2_index(vpn), get_level_1_index(vpn),
                get_level_0_index(vpn))[3]

\* the first physical page of the kernel image
KernelStartPpn == PageOf(BootImage.boot_end + 1)

KernelPages == (boot.kernel_size + PAGE_SIZE - 1) \div PAGE_SIZE

\* C25: the kernel high mapping maps exactly ceil(kernel_size / 4096)
\* consecutive virtual pages from the kernel base to the consecutive
\* physical pages from the start of the kernel image, with R, W and X set,
\* and maps no page beyond that count.
C25_KernelMappingCoversTheImage ==
    (last_op = "map_kernel_into_high_virtual_memory" /\ ~boot.mapping_failed) =>
        \A i \in 0 .. KernelPages + 1 :
            LET entry == EntryOfVpn(memory, boot.root[1], KernelBaseVpn + i)
            IN  IF i < KernelPages
                THEN /\ is_valid(entry)
                     /\ is_readable(entry) /\ is_writable(entry) /\ is_executable(entry)
                     /\ get_ppn(entry) = FromInt(KernelStartPpn + i)
                ELSE ~is_valid(entry)

-----------------------------------------------------------------------------
(* Claims about identity_map_range and map_range *)

\* C29: map_range called with a number of pages equal to zero returns
\* without doing anything: the root page table and all child tables are
\* unchanged and no page is taken from the allocator.
C29_MapRangeOfZeroPagesDoesNothing ==
    (mmu_call.op = "map_range" /\ mmu_call.last = 0) =>
        /\ memory = mmu_call.before
        /\ Some(Allocator) = mmu_call.allocator_before
        /\ mmu_call.result = <<>>

\* the number of pages of the range of the last bulk call
RangeLength ==
    IF mmu_call.op = "map_range" THEN mmu_call.last + 1
    ELSE IF mmu_call.ppn > mmu_call.last THEN 0
    ELSE mmu_call.last - mmu_call.ppn + 1

\* the level 1 and level 0 tables that the walk for vpn needs are in mem
IntermediateTablesExist(mem, root, vpn) ==
    LET walked == WalkEntries(mem, root, get_level_2_index(vpn), get_level_1_index(vpn),
                              get_level_0_index(vpn))
    IN  is_valid(walked[1]) /\ is_valid(walked[2])

\* C28: when an allocate_vpn call of identity_map_range or map_range fails,
\* the operation still calls allocate_vpn for every page of the range, in
\* order, and returns; every page whose intermediate tables existed before
\* the operation is mapped after it.
C28_BulkMappingGoesOnAfterFailure ==
    (mmu_call.op \in {"identity_map_range", "map_range"} /\ mmu_call.failed) =>
        /\ Len(mmu_call.result) = RangeLength
        /\ \A i \in 1 .. Len(mmu_call.result) :
              /\ mmu_call.result[i].vpn = mmu_call.vpn + i - 1
              /\ mmu_call.result[i].ppn = mmu_call.ppn + i - 1
              /\ IntermediateTablesExist(mmu_call.before, root_page_table,
                                         mmu_call.result[i].vpn) =>
                    /\ mmu_call.result[i].result # None
                    /\ is_valid(EntryOfVpn(memory, root_page_table,
                                           mmu_call.result[i].vpn))

\* a page of the range fails and a later page, not mapped before the
\* operation, is mapped by it
C28_Witness ==
    /\ mmu_call.op \in {"identity_map_range", "map_range"}
    /\ mmu_call.failed
    /\ \E i, j \in 1 .. Len(mmu_call.result) :
          /\ i < j
          /\ mmu_call.result[i].result = None
          /\ mmu_call.result[j].result # None
          /\ ~is_valid(EntryOfVpn(mmu_call.before, root_page_table,
                                  mmu_call.result[j].vpn))
          /\ is_valid(EntryOfVpn(memory, root_page_table, mmu_call.result[j].vpn))

\* the virtual address of page vpn with the given offset bits
AddressOfPage(vpn, offset) == Shl(FromInt(vpn), 12) \cup offset

\* the offsets of the first and of the last byte of a page
PageOffsets == {{}, 0 .. 11}

\* every address of the pages start .. last translates to itself
IdentityTranslated(mem, start, last) ==
    \A vpn \in start .. last, offset \in PageOffsets :
        translate_virtual_address(mem, root_page_table, AddressOfPage(vpn, offset))
            = Some(AddressOfPage(vpn, offset))

\* the entry of page vpn is not valid, or is what it was before the call
NotMappedByCall(vpn) ==
    LET entry == EntryOfVpn(memory, root_page_table, vpn)
    IN  is_valid(entry) => entry = EntryOfVpn(mmu_call.before, root_page_table, vpn)

\* before the call no page of the range had a leaf for another frame
NoOtherLeafBefore ==
    \A vpn \in mmu_call.ppn .. mmu_call.last :
        LET entry == EntryOfVpn(mmu_call.before, root_page_table, vpn)
        IN  is_leaf(entry) => get_ppn(entry) = FromInt(vpn)

\* identity_map_range returned without a failed allocation
IdentityMapRangeDone == mmu_call.op = "identity_map_range" /\ ~mmu_call.failed

\* with start_ppn > end_ppn the call changes nothing
EmptyRangeChangesNothing ==
    mmu_call.ppn > mmu_call.last =>
        /\ memory = mmu_call.before
        /\ Some(Allocator) = mmu_call.allocator_before
        /\ mmu_call.result = <<>>

\* C26 as stated: identity_map_range with start_ppn <= end_ppn and an
\* allocator that does not run out maps exactly the frames start_ppn ..
\* end_ppn with vpn = ppn, so that every address of these pages translates
\* to itself, whatever the root table held; with start_ppn > end_ppn it
\* changes nothing.
C26_IdentityMapRangeAsStated ==
    IdentityMapRangeDone =>
        /\ IdentityTranslated(memory, mmu_call.ppn, mmu_call.last)
        /\ EmptyRangeChangesNothing

\* C26: identity_map_range with start_ppn <= end_ppn and an allocator that
\* does not run out, on a root in which no page of the range already has a
\* leaf for another frame, makes every address of the pages start_ppn ..
\* end_ppn translate to itself and maps no page next to the range; with
\* start_ppn > end_ppn it changes nothing.
C26_IdentityMapRangeMapsTheRange ==
    IdentityMapRangeDone =>
        /\ NoOtherLeafBefore =>
              /\ IdentityTranslated(memory, mmu_call.ppn, mmu_call.last)
              /\ mmu_call.ppn <= mmu_call.last =>
                    /\ NotMappedByCall(mmu_call.ppn - 1)
                    /\ NotMappedByCall(mmu_call.last + 1)
        /\ EmptyRangeChangesNothing

\* a range over the boundary of two level 0 tables is mapped on a root that
\* had none of its pages
C26_Witness ==
    /\ IdentityMapRangeDone
    /\ mmu_call.ppn < mmu_call.last
    /\ NoOtherLeafBefore
    /\ Len(mmu_call.result) = RangeLength
    /\ \A vpn \in mmu_call.ppn .. mmu_call.last :
          ~is_valid(EntryOfVpn(mmu_call.before, root_page_table, vpn))
    /\ IdentityTranslated(memory, mmu_call.ppn, mmu_call.last)

-----------------------------------------------------------------------------
(* Claims about PageTableEntry *)

\* C30: for every entry e and every 44-bit ppn p, set_ppn(p) changes only
\* bits 10 to 53 of e, so the flag bits 0 to 7 are preserved, and afterwards
\* get_ppn() returns p.
C30_SetPpnChangesOnlyThePpnField ==
    mmu_call.op = "set_ppn" =>
        /\ mmu_call.entry \ (10 .. 53) = mmu_call.before \ (10 .. 53)
        /\ get_ppn(mmu_call.entry) = mmu_call.ppn[1]

-----------------------------------------------------------------------------
(* Claims about termination *)

\* C40: get_property_data_as_reg returns for every cell info and every data
\* length, address_cells = 0 and size_cells = 0 included, after finitely
\* many callbacks.
C40_RegTerminates ==
    walk.reg # <<>> => walk.reg[1].returns

-----------------------------------------------------------------------------
(* Claims about leaves on the path of allocate_vpn *)

\* what mem holds in a frame
FrameOf(mem, frame) == IF frame \in DOMAIN mem THEN mem[frame] ELSE <<>>

\* C39: allocate_vpn never descends through a leaf: when the level 2 entry
\* on the path of the vpn is a valid leaf before the call, the call fails
\* to map and writes nothing into the frame that the leaf maps; the same
\* holds for a leaf at level 1.
C39_AllocateVpnStopsAtLeaf ==
    mmu_call.op = "allocate_vpn" =>
        LET level_2 == get_entry(mmu_call.before, root_page_table,
                                 get_level_2_index(mmu_call.vpn))
            level_1 == get_entry(mmu_call.before, get_ppn(level_2),
                                 get_level_1_index(mmu_call.vpn))
        IN  /\ is_leaf(level_2) =>
                  FrameOf(memory, get_ppn(level_2))
                      = FrameOf(mmu_call.before, get_ppn(level_2))
            /\ (~is_leaf(level_2) /\ is_valid(level_2) /\ is_leaf(level_1)) =>
                  FrameOf(memory, get_ppn(level_1))
                      = FrameOf(mmu_call.before, get_ppn(level_1))

-----------------------------------------------------------------------------
(* Claims about the transitions of page table entries *)

\* the entries of the root table and of the tables made by the calls that
\* satisfy Kind are the same after the step
EntriesKept(Kind(_)) ==
    \A frame \in DOMAIN memory \ {DataFrame} :
        \A index \in DOMAIN memory[frame] :
            Kind(memory[frame][index]) =>
                get_entry(memory', frame, index) = memory[frame][index]

\* C32: across allocate_vpn and allocate_level_2_vpn calls an entry of a
\* page table that is valid never becomes invalid, a valid leaf never
\* changes its PPN or flags and a valid branch never changes the table it
\* points to or turns into a leaf: a valid entry is never changed.
C32_ValidEntriesNeverChange ==
    [][EntriesKept(is_valid)]_vars

-----------------------------------------------------------------------------
(* Claims about the sizes the allocator reports *)

\* the sum of the regions before the current one, without the part of the
\* current region that is handed out
ConsumedRegionsOnly(mr, count, index, next) == total_memory_size(mr, index)

\* PhysicalBumpAllocator::allocated_memory_size
allocated_memory_size(mr, count, index, next) ==
    total_memory_size(mr, index)
        + (IF index < count THEN next - mr[index + 1].start ELSE 0)

\* PhysicalMemoryAllocator::available_memory_size
available_memory_size(mr, count, index, next) ==
    total_memory_size(mr, count) - allocated_memory_size(mr, count, index, next)

AllocatedNow ==
    allocated_memory_size(memory_regions, region_count, current_region_index,
                          next_allocation_address)

AvailableNow ==
    available_memory_size(memory_regions, region_count, current_region_index,
                          next_allocation_address)

\* a call returned none
Exhausted == \E i \in 1 .. Len(returned) : returned[i] = None

\* every region of the snapshot has a size that is a multiple of the page size
PageMultipleSizes == \A i \in 1 .. region_count : memory_regions[i].size % PAGE_SIZE = 0

\* C33 as stated: for every region snapshot and after any number of
\* allocate_page calls, allocated_memory_size() is 4096 times the number of
\* successful allocations, and available_memory_size() is
\* total_memory_size() minus that and is 0 once the allocator is exhausted.
C33_AllocatedIsPagesHandedOut ==
    resets = 1 =>
        /\ AllocatedNow = PAGE_SIZE * Len(Successes)
        /\ AvailableNow = total_memory_size(memory_regions, region_count) - AllocatedNow
        /\ Exhausted => AvailableNow = 0

\* C33: after reset on a snapshot and any number of allocate_page calls,
\* available_memory_size() is total_memory_size() minus
\* allocated_memory_size(), is never negative and is 0 once the allocator is
\* exhausted; when every snapshotted region has a size that is a multiple
\* of 4096, allocated_memory_size() is 4096 times the number of successful
\* allocations.
C33_AllocatedIsPagesOfWholeRegions ==
    resets = 1 =>
        /\ AvailableNow = total_memory_size(memory_regions, region_count) - AllocatedNow
        /\ AvailableNow >= 0
        /\ Exhausted => AvailableNow = 0
        /\ PageMultipleSizes => AllocatedNow = PAGE_SIZE * Len(Successes)

\* pages were handed out of two regions and the second is partly used
C33_Witness ==
    /\ resets = 1
    /\ PageMultipleSizes
    /\ Len(Successes) >= 2
    /\ current_region_index >= 1
    /\ current_region_index < region_count
    /\ next_allocation_address > memory_regions[current_region_index + 1].start
    /\ AllocatedNow = PAGE_SIZE * Len(Successes)
    /\ AvailableNow > 0

-----------------------------------------------------------------------------
(* Claims about the pages handed out by one allocator *)

\* the regions the allocator was reset on
Snapshot == SubSeq(memory_regions, 1, region_count)

\* C38: for a snapshot of pairwise disjoint regions, no two successful
\* allocate_page calls of one allocator return the same page or
\* overlapping pages.
C38_PagesNeverOverlap ==
    PairwiseDisjoint(Snapshot) =>
        \A i, j \in 1 .. Len(Successes) :
            i < j => \/ Successes[i] + PAGE_SIZE <= Successes[j]
                     \/ Successes[j] + PAGE_SIZE <= Successes[i]

\* pages were handed out of two disjoint regions, the later region of the
\* snapshot lying below the earlier one
C38_Witness ==
    /\ resets = 1
    /\ PairwiseDisjoint(Snapshot)
    /\ Len(Successes) >= 3
    /\ \E i, j \in 1 .. Len(Successes) : i < j /\ Successes[j] < Successes[i]

-----------------------------------------------------------------------------
(* Claims about carve_out_region on a map of several regions *)

\* the range X lies over the whole of a region that is not empty
Swallowed(region, X) ==
    /\ region.size > 0
    /\ X.start <= region.start
    /\ region.start + region.size <= X.start + X.size

\* the regions of regs that the range X does not swallow, in map order
Survivors(regs, X) == SelectSeq(regs, LAMBDA region : ~Swallowed(region, X))

NonEmpty(regs) == SelectSeq(regs, LAMBDA region : region.size > 0)

\* region lies within the bounds of the region it is what is left of
LeftOf(region, whole) ==
    /\ whole.start <= region.start
    /\ region.start + region.size <= whole.start + whole.size

\* the regions of before that X does not swallow are the first regions of
\* after, in the same order: unchanged when X does not intersect them, a
\* part of themselves otherwise
SurvivorsKeepOrder(before, after, X) ==
    LET survivors == Survivors(before, X)
    IN  /\ Len(after) >= Len(survivors)
        /\ \A k \in 1 .. Len(survivors) :
              IF Intersect(survivors[k], X)
              THEN LeftOf(after[k], survivors[k])
              ELSE after[k] = survivors[k]

\* C34 as stated: carve_out_region leaves every region that does not
\* intersect the reserved range unchanged in start and size, regions
\* adjacent to it included, keeps the surviving regions in their original
\* relative order, and with reserved_size = 0 changes nothing at all.
C34_CarveLeavesOthersAlone ==
    last_op = "carve_out_region" =>
        IF reserved.size = 0 THEN regions = orig
        ELSE SurvivorsKeepOrder(orig, regions, EffectiveReserved)

\* C34: carve_out_region leaves every region of non-zero size that does not
\* intersect the reserved range unchanged in start and size, regions
\* adjacent to it included, keeps the surviving regions of non-zero size in
\* their original relative order, and with reserved_size = 0 changes
\* nothing at all.
C34_CarveLeavesNonEmptyOthersAlone ==
    last_op = "carve_out_region" =>
        IF reserved.size = 0 THEN regions = orig
        ELSE SurvivorsKeepOrder(NonEmpty(orig), NonEmpty(regions), EffectiveReserved)

\* the first region was removed, the second, which the range does not
\* touch, moved into its slot, and the third was cut
C34_Witness ==
    /\ last_op = "carve_out_region"
    /\ reserved.size > 0
    /\ Len(orig) = 3
    /\ Swallowed(orig[1], EffectiveReserved)
    /\ orig[2].size > 0 /\ ~Intersect(orig[2], EffectiveReserved)
    /\ regions[1] = orig[2]
    /\ Intersect(orig[3], EffectiveReserved) /\ ~Swallowed(orig[3], EffectiveReserved)
    /\ regions[2] # orig[3]

\* the number of regions that the range X lies in the middle of
RECURSIVE MiddleCount(_, _)
MiddleCount(regs, X) ==
    IF regs = <<>> THEN 0
    ELSE MiddleCount(Tail(regs), X)
         + (IF /\ X.start > Head(regs).start
               /\ X.start + X.size < Head(regs).start + Head(regs).size
            THEN 1 ELSE 0)

\* C36: carve_out_region terminates for every map (zero-size regions
\* included) and every reserved range: every intersecting region matches
\* one of the four cases, and a suffix appended by the middle case is never
\* split again by the same call, so the map grows by at most one region for
\* each region the range lies in the middle of and no region left in the
\* map intersects the range.
C36_CarveTerminates ==
    last_op \in {"carve_out_region", "carve_out_region_again"} =>
        /\ halted = "no"
        /\ reserved.size > 0 =>
              /\ Len(regions) <= Len(orig) + MiddleCount(orig, EffectiveReserved)
              /\ \A k \in 1 .. Len(regions) : ~Intersect(regions[k], EffectiveReserved)

\* the range lay in the middle of a region of a map that also holds a
\* region of size zero; the suffix was appended behind both
C36_Witness ==
    /\ last_op = "carve_out_region"
    /\ halted = "no"
    /\ reserved.size > 0
    /\ \E i \in 1 .. Len(orig) : orig[i].size = 0
    /\ Len(regions) = Len(orig) + 1
    /\ regions[Len(regions)].start = EffectiveReserved.start + EffectiveReserved.size

\* C37: carve_out_region is idempotent: a second call with the same
\* reserved range immediately after the first leaves the regions and the
\* region count exactly as the first call left them.
C37_CarveIsIdempotent ==
    last_op = "carve_out_region_again" =>
        /\ halted = "no"
        /\ regions = orig
        /\ Len(regions) = Len(orig)

\* the first call split a region around the range and the second call ran
C37_Witness ==
    /\ last_op = "carve_out_region_again"
    /\ reserved.size > 0
    /\ \E j, k \in 1 .. Len(regions) :
          /\ j < k
          /\ regions[j].size > 0
          /\ regions[j].start + regions[j].size = EffectiveReserved.start
          /\ regions[k].start = EffectiveReserved.start + EffectiveReserved.size
    /\ regions = orig

-----------------------------------------------------------------------------
(* Claims about the reserved regions of the blob *)

\* the node at depth e that the callback i of the walk lies in
AncestorAt(trace, i, e) ==
    LET nodes == {j \in 1 .. i - 1 : trace[j].kind = "node" /\ trace[j].depth = e}
    IN  trace[CHOOSE j \in nodes : \A k \in nodes : k <= j]

\* the property of callback i belongs to a descendant of a reserved-memory node
BelowReservedMemory(trace, i) ==
    \E e \in 0 .. trace[i].depth - 1 : IsReservedMemoryNode(AncestorAt(trace, i, e).name)

\* the pairs of the reg properties of the descendants of reserved-memory
\* nodes, in the order of the walk from callback i on
RECURSIVE ReservedRegPairs(_, _, _)
ReservedRegPairs(blob, trace, i) ==
    IF i > Len(trace) THEN <<>>
    ELSE IF /\ trace[i].kind = "property"
            /\ trace[i].property.name = RegName
            /\ BelowReservedMemory(trace, i)
    THEN CarvedAt(i, get_property_data_as_reg(blob, trace[i].property,
                                              trace[i].cells_info).calls)
         \o ReservedRegPairs(blob, trace, i + 1)
    ELSE ReservedRegPairs(blob, trace, i + 1)

\* C31: adjust_memory_map_from_reserved_regions_in_dtb calls
\* carve_out_region for exactly the (address, size) pairs of the reg
\* properties of the nodes that are descendants of a reserved-memory node,
\* wherever that node sits and whatever nodes follow it.
C31_CarvesOnlyReservedDescendants ==
    last_op = "adjust_memory_map_from_reserved_regions_in_dtb" =>
        walk.reg = ReservedRegPairs(dtb, walk.trace, 1)

-----------------------------------------------------------------------------
(* Claims about the map and the allocator of the boot program *)

\* the ranges create_memory_map carved out: those of the reserved memory
\* and that of the boot image and the kernel image
CarvedRanges ==
    {MemoryRegion(walk.reg[k].start, walk.reg[k].size) : k \in DOMAIN walk.reg}
    \cup {reserved}

\* create_memory_map returned
MapCreated == last_op \in {"create_memory_map", "reset", "allocate_page"} /\ halted = "no"

\* C35: after create_memory_map no stored region intersects the range of
\* the boot and kernel images or a range carved out for reserved memory, and
\* no page returned by the allocator built from that map overlaps one of
\* these ranges.
C35_ImagesAndReservedRangesStayFree ==
    MapCreated =>
        \A x \in CarvedRanges :
            /\ \A i \in 1 .. Len(regions) : ~Intersect(regions[i], x)
            /\ \A k \in 1 .. Len(Successes) :
                   ~Intersect(MemoryRegion(Successes[k], PAGE_SIZE), x)

\* pages were handed out below and above the images, with a reserved range
\* between two of the pages
C35_Witness ==
    /\ MapCreated
    /\ \E i, j \in 1 .. Len(Successes) :
          /\ Successes[i] < reserved.start
          /\ Successes[j] >= reserved.start + reserved.size
          /\ \E k \in DOMAIN walk.reg :
                /\ Successes[i] < walk.reg[k].start
                /\ walk.reg[k].start + walk.reg[k].size <= Successes[j]

====
